---- MODULE Spec2Model ----
(***************************************************************************)
(* The lambda function plugin of plugins/jsvm/lambdas.go: the trigger      *)
(* registry (HTTP routes, DB triggers, cron jobs), its synchronisation     *)
(* with the "lambdas" collection, the execution engine and the HTTP        *)
(* response projection.                                                    *)
(***************************************************************************)
EXTENDS Integers, Sequences, FiniteSets, TLC

VARIABLES
  records,          \* the "lambdas" collection: function id -> persisted record
  httpRoutes,       \* p.httpRoutes: route key -> LambdaFunctionHTTPRoute
  dbTriggers,       \* p.dbTriggers: "<collection>:<event>" -> sequence of LambdaFunctionDBTrigger
  cronJobs,         \* p.cronJobs: function id -> LambdaFunctionCronJob
  schedulerJobs,    \* the jobs held by p.scheduler
  schedulerStarted, \* p.scheduler is running
  router,           \* p.router != nil
  routerRoutes,     \* the routes p.router.Route has received
  routerRepeats,    \* p.router.Route has received some route a second time
  bootstrapped,     \* the OnBootstrap chain has run
  last,             \* the last hook chain that ran and what it returned
  spawned,          \* the detached executions started by the last hook chain
  w,                \* the goroutines running a lambdas hook chain step by step: where each one is
  obs,              \* what a dispatcher read from the three tables
  config,           \* p.config: MaxExecutionTime (seconds) and PoolSize
  execs,            \* the calls of executeFunction: execution id -> where the call is
  vmGlobals,        \* the goja runtimes: runtime id -> the user globals defined in it
  nextVM,           \* the id goja.New() hands out next
  now,              \* the wall clock, in seconds
  httpIn,           \* an HTTP request at a lambda route: the execution result and the stored record
  httpOut,          \* the response the handler wrote for it
  ctxIn,            \* the LambdaFunctionExecutionContext a dispatcher built last
  ctxOut            \* the globals setExecutionContext defined in the runtime made for it

regTables == <<httpRoutes, dbTriggers, cronJobs>>
regVars == <<records, httpRoutes, dbTriggers, cronJobs, schedulerJobs, schedulerStarted,
             router, routerRoutes, routerRepeats, bootstrapped, last, spawned>>

concVars == <<w, obs>>
execVars == <<config, execs, vmGlobals, nextVM, now>>
httpVars == <<httpIn, httpOut>>
ctxVars == <<ctxIn, ctxOut>>

vars == <<regVars, concVars, execVars, httpVars, ctxVars>>

(***************************************************************************)
(* Values                                                                  *)
(***************************************************************************)
FunctionIds == {"f1", "f2"}

NilErr == "<nil>"

\* The texts the "triggers" field takes here.  json = FALSE is a text that
\* json.Unmarshal rejects; otherwise the fields are the decoded arrays.
NotJSON == [json |-> FALSE, http |-> <<>>, database |-> <<>>, cron |-> <<>>]

SomeText == [json |-> TRUE, http |-> << [method |-> "GET", path |-> "/a"], [method |-> "post", path |-> "/b"] >>,
             database |-> << [collection |-> "posts", event |-> "create"] >>, cron |-> <<>>]

TriggerTexts ==
  { NotJSON,
    [json |-> TRUE, http |-> <<>>, database |-> <<>>, cron |-> <<>>],
    [json |-> TRUE, http |-> << [method |-> "get", path |-> "/a"] >>,
       database |-> <<>>, cron |-> <<>>],
    SomeText,
    [json |-> TRUE, http |-> <<>>,
       database |-> << [collection |-> "posts", event |-> "create"], [collection |-> "lambdas", event |-> "delete"] >>,
       cron |-> << [schedule |-> "* * * * *"] >>],
    [json |-> TRUE, http |-> << [method |-> "GET", path |-> "/b"] >>, database |-> <<>>,
       cron |-> << [schedule |-> "* * * * *"], [schedule |-> "0 * * * *"] >>] }

Collections == {"posts", "lambdas"}
Events == {"create", "update", "delete"}

\* A record that is not in the collection.
NoRecord == [exists |-> FALSE, enabled |-> FALSE, triggers |-> NotJSON, code |-> "", timeout |-> 0,
             contentType |-> ""]

\* A stored record with the fields read here: enabled, triggers, code, timeout
\* (ms), contentType.
Rec(enabled, triggers) ==
  [exists |-> TRUE, enabled |-> enabled, triggers |-> triggers, code |-> "1", timeout |-> 1000,
   contentType |-> ""]

\* The records written to the collection: enabled with each text, and a disabled one.
RecordValues ==
  { Rec(TRUE, t) : t \in TriggerTexts } \cup { Rec(FALSE, SomeText) }

\* The goroutines that run lambdas hook chains.
Procs == {"w1", "w2"}

\* A goroutine that runs no hook chain.
Idle == [pc |-> "idle", op |-> "", f |-> "", old |-> NoRecord, keys |-> {}, key |-> "", i |-> 0, triggers |-> <<>>]

NoObservation == [f |-> "", http |-> {}, db |-> {}, cron |-> "", old |-> NoRecord, new |-> NoRecord]

\* The calls of executeFunction followed at a time.
MaxExecs == 2

ExecIds == 1..MaxExecs

\* config.PoolSize: the number of prewarmed runtimes.
PoolSize == 1

\* Runtime ids: the pool's and one per call.
VMIds == 1..(MaxExecs + PoolSize)

\* config.MaxExecutionTime when it is left 0: 30 * time.Second
DefaultMaxExecutionTime == 30

\* A value a script produces, as Go holds it: its dynamic type, and the text,
\* the number (a float64 in tenths) or the members it has.
Val(type, str, num, fields) == [type |-> type, str |-> str, num |-> num, fields |-> fields]

\* Go's nil interface value
Nil == Val("nil", "", 0, <<>>)

NoExec == [state |-> "free", FunctionID |-> "", vm |-> 0, code |-> "", StartTime |-> 0,
           deadline |-> 0, evalDone |-> FALSE, evalValue |-> Nil, evalErr |-> NilErr,
           timedOut |-> FALSE, doneAtReturn |-> FALSE,
           result |-> [Success |-> FALSE, Output |-> Nil, Error |-> ""], Duration |-> 0]

NoHTTP == [none |-> TRUE]

(***************************************************************************)
(* sync.Map                                                                *)
(***************************************************************************)
EmptyMap == [k \in {} |-> 0]

Store(m, k, v) == [x \in (DOMAIN m) \cup {k} |-> IF x = k THEN v ELSE m[x]]

Delete(m, k) == [x \in (DOMAIN m) \ {k} |-> m[x]]

(***************************************************************************)
(* strings                                                                 *)
(***************************************************************************)
\* The method kept in the letter case it was written in.
ToUpperVerbatim(s) == s

\* strings.ToUpper, for the method names of the trigger texts
ToUpper(s) ==
  CASE s = "get"  -> "GET"
    [] s = "post" -> "POST"
    [] OTHER      -> s

\* fmt.Sprintf("%s:%s", a, b)
Sprintf2(a, b) == a \o ":" \o b

\* strings.HasPrefix
HasPrefix(str, prefix) ==
  Len(str) >= Len(prefix) /\ SubSeq(str, 1, Len(prefix)) = prefix

\* json.Unmarshal([]byte(triggers), &triggerConfig)
jsonUnmarshal(triggers) ==
  IF triggers.json
    THEN [err |-> NilErr, triggerConfig |-> triggers]
    ELSE [err |-> "invalid character", triggerConfig |-> triggers]

(***************************************************************************)
(* The registry.  The operators below work on a record                     *)
(*   [httpRoutes, dbTriggers, cronJobs, schedulerJobs]                     *)
(* so that a handler is the composition of the calls it makes.             *)
(***************************************************************************)
Registry == [httpRoutes |-> httpRoutes, dbTriggers |-> dbTriggers,
             cronJobs |-> cronJobs, schedulerJobs |-> schedulerJobs]

\* cron.Cron.MustAdd(jobID, schedule, run): every expression is kept as its own job.
schedulerMustAdd(jobs, jobID, schedule) == Append(jobs, [id |-> jobID, schedule |-> schedule])

\* cron.Cron.Remove(jobID)
schedulerRemove(jobs, jobID) == SelectSeq(jobs, LAMBDA j : j.id # jobID)

\* registerHTTPTrigger with LoadOrStore in place of Store: an existing entry is kept.
registerHTTPTriggerLoadOrStore(r, functionID, method, path) ==
  LET routeKey == Sprintf2(method, path)
      route == [FunctionID |-> functionID, Method |-> method, Path |-> path]
  IN IF routeKey \in DOMAIN r.httpRoutes THEN r
     ELSE [r EXCEPT !.httpRoutes = Store(r.httpRoutes, routeKey, route)]

registerHTTPTrigger(r, functionID, method, path) ==
  LET routeKey == Sprintf2(method, path)
      route == [FunctionID |-> functionID, Method |-> method, Path |-> path]
  IN [r EXCEPT !.httpRoutes = Store(r.httpRoutes, routeKey, route)]

registerDatabaseTrigger(r, functionID, collection, event) ==
  LET trigger == [FunctionID |-> functionID, Collection |-> collection, Event |-> event]
      key == Sprintf2(collection, event)
      triggers == IF key \in DOMAIN r.dbTriggers THEN r.dbTriggers[key] ELSE <<>>
      updatedTriggers == Append(triggers, trigger)
  IN [r EXCEPT !.dbTriggers = Store(r.dbTriggers, key, updatedTriggers)]

\* registerCronTrigger keeping the job entry the function already has.
registerCronTriggerKeepFirst(r, functionID, schedule) ==
  LET jobID == "lambda_function_" \o functionID
      job == [FunctionID |-> functionID, Schedule |-> schedule, JobID |-> jobID]
  IN [r EXCEPT !.schedulerJobs = schedulerMustAdd(r.schedulerJobs, jobID, schedule),
               !.cronJobs = IF functionID \in DOMAIN r.cronJobs THEN r.cronJobs
                            ELSE Store(r.cronJobs, functionID, job)]

\* registerCronTrigger(functionID, schedule)
registerCronTrigger(r, functionID, schedule) ==
  LET jobID == "lambda_function_" \o functionID
      job == [FunctionID |-> functionID, Schedule |-> schedule, JobID |-> jobID]
  IN [r EXCEPT !.schedulerJobs = schedulerMustAdd(r.schedulerJobs, jobID, schedule),
               !.cronJobs = Store(r.cronJobs, functionID, job)]

RECURSIVE registerHTTPTriggers(_, _, _)
registerHTTPTriggers(r, functionID, httpTriggers) ==
  IF httpTriggers = <<>> THEN r
  ELSE LET httpTrigger == Head(httpTriggers)
           method == ToUpper(httpTrigger.method)
           path == httpTrigger.path
       IN registerHTTPTriggers(registerHTTPTrigger(r, functionID, method, path),
                               functionID, Tail(httpTriggers))

RECURSIVE registerDatabaseTriggerList(_, _, _)
registerDatabaseTriggerList(r, functionID, dbTrigs) ==
  IF dbTrigs = <<>> THEN r
  ELSE LET dbTrigger == Head(dbTrigs)
       IN registerDatabaseTriggerList(
            registerDatabaseTrigger(r, functionID, dbTrigger.collection, dbTrigger.event),
            functionID, Tail(dbTrigs))

RECURSIVE registerCronTriggers(_, _, _)
registerCronTriggers(r, functionID, cronTriggers) ==
  IF cronTriggers = <<>> THEN r
  ELSE registerCronTriggers(registerCronTrigger(r, functionID, Head(cronTriggers).schedule),
                            functionID, Tail(cronTriggers))

\* registerFunction(function): the registry afterwards and the error returned.
registerFunction(r, functionID, function) ==
  IF ~function.enabled THEN [r |-> r, err |-> NilErr]
  ELSE LET parsed == jsonUnmarshal(function.triggers)
           triggerConfig == parsed.triggerConfig
           r1 == registerHTTPTriggers(r, functionID, triggerConfig.http)
           r2 == registerDatabaseTriggerList(r1, functionID, triggerConfig.database)
           r3 == registerCronTriggers(r2, functionID, triggerConfig.cron)
       IN IF parsed.err # NilErr
            THEN [r |-> r, err |-> "invalid trigger configuration: " \o parsed.err]
            ELSE [r |-> r3, err |-> NilErr]

\* The filter with its test inverted: the entries of functionID are the ones kept.
filterTriggersInverted(triggers, functionID) == SelectSeq(triggers, LAMBDA t : t.FunctionID = functionID)

\* The filtered list handleFunctionDeleted builds for one key.
filterTriggers(triggers, functionID) == SelectSeq(triggers, LAMBDA t : t.FunctionID # functionID)

\* handleFunctionDeleted storing every filtered list, the empty ones too.
handleFunctionDeletedKeepEmptyLists(r, functionID) ==
  LET keptRoutes == {k \in DOMAIN r.httpRoutes : r.httpRoutes[k].FunctionID # functionID}
      hasJob == functionID \in DOMAIN r.cronJobs
  IN [httpRoutes |-> [k \in keptRoutes |-> r.httpRoutes[k]],
      dbTriggers |-> [k \in DOMAIN r.dbTriggers |-> filterTriggers(r.dbTriggers[k], functionID)],
      cronJobs |-> IF hasJob THEN Delete(r.cronJobs, functionID) ELSE r.cronJobs,
      schedulerJobs |-> IF hasJob THEN schedulerRemove(r.schedulerJobs, r.cronJobs[functionID].JobID)
                                  ELSE r.schedulerJobs]

\* handleFunctionDeleted(record)
handleFunctionDeleted(r, functionID) ==
  LET keptRoutes == {k \in DOMAIN r.httpRoutes : r.httpRoutes[k].FunctionID # functionID}
      keptKeys == {k \in DOMAIN r.dbTriggers : Len(filterTriggers(r.dbTriggers[k], functionID)) # 0}
      hasJob == functionID \in DOMAIN r.cronJobs
  IN [httpRoutes |-> [k \in keptRoutes |-> r.httpRoutes[k]],
      dbTriggers |-> [k \in keptKeys |-> filterTriggers(r.dbTriggers[k], functionID)],
      cronJobs |-> IF hasJob THEN Delete(r.cronJobs, functionID) ELSE r.cronJobs,
      schedulerJobs |-> IF hasJob THEN schedulerRemove(r.schedulerJobs, r.cronJobs[functionID].JobID)
                                  ELSE r.schedulerJobs]

\* The path with the /api prefix put before every path that does not start with it.
fullPathPrefixed(path) ==
  IF HasPrefix(path, "/api/") THEN path ELSE "/api" \o path

\* registerHTTPRoutes(): the path a route is handed to the router with; both
\* branches use the route's path as it is.
fullPath(path) ==
  IF HasPrefix(path, "/api/") THEN path ELSE path

\* The route p.router.Route receives for a table entry.
routerRoute(route) == [route EXCEPT !.Path = fullPath(route.Path)]

\* registerHTTPRoutes(): with a router, every entry of the table is handed to
\* p.router.Route; this is the set of routes the router has received afterwards.
registerHTTPRoutes(routes, attached, routerSet) ==
  IF ~routerSet THEN attached
  ELSE attached \cup {routerRoute(routes[k]) : k \in DOMAIN routes}

\* registerHTTPRoutes(): some entry is handed to p.router.Route that the router
\* had received before.
routeRepeated(routes, attached, routerSet) ==
  routerSet /\ \E k \in DOMAIN routes : routerRoute(routes[k]) \in attached

\* handleFunctionCreated(record)
handleFunctionCreated(r, functionID, record) ==
  registerFunction(r, functionID, record)

\* handleFunctionUpdated without the removal of the old registrations.
handleFunctionUpdatedNoRemoval(r, functionID, record) ==
  registerFunction(r, functionID, record)

\* handleFunctionUpdated(record)
handleFunctionUpdated(r, functionID, record) ==
  registerFunction(handleFunctionDeleted(r, functionID), functionID, record)

\* executeFunctionForDBEvent that starts an execution for the first entry only.
executeFunctionForDBEventFirstOnly(triggersMap, collection, event) ==
  LET key == Sprintf2(collection, event)
  IN IF key \in DOMAIN triggersMap /\ Len(triggersMap[key]) > 0
       THEN << triggersMap[key][1].FunctionID >>
       ELSE <<>>

\* executeFunctionForDBEvent: the function ids of the executions it starts, in order.
executeFunctionForDBEvent(triggersMap, collection, event) ==
  LET key == Sprintf2(collection, event)
  IN IF key \in DOMAIN triggersMap
       THEN [i \in 1..Len(triggersMap[key]) |-> triggersMap[key][i].FunctionID]
       ELSE <<>>

\* No execution has started: the plugin as constructed with the default configuration.
NoExecutions ==
  /\ config = [MaxExecutionTime |-> DefaultMaxExecutionTime, PoolSize |-> PoolSize]
  /\ execs = [e \in ExecIds |-> NoExec]
  /\ vmGlobals = [v \in VMIds |-> {}]
  /\ nextVM = PoolSize + 1
  /\ now = 0

\* A Go interface{} value: the dynamic type and the pointer it holds. The nil
\* interface has no dynamic type; a nil pointer stored in an interface has one.
NilInterface == [type |-> "nil", ptr |-> "nil"]
Interface(type, ptr) == [type |-> type, ptr |-> ptr]

\* A *http.Request: nil, or a request with its method, URL and entity body
\* (HasBody is r.Body != nil).
NilRequest == [nil |-> TRUE, Method |-> "", URL |-> "", HasBody |-> FALSE, Body |-> ""]

\* No dispatcher has built a context.
NoContext == [FunctionID |-> "", TriggerType |-> "", Request |-> NilRequest,
              Record |-> NilInterface, OldRecord |-> NilInterface]

\* The $request object of a runtime in which none is defined.
NoJSRequest == [method |-> "", url |-> "", body |-> ""]

\* No runtime has been given a context: bound is the set of global names
\* setExecutionContext defined, the other fields their values.
NoBindings == [made |-> FALSE, bound |-> {}, trigger |-> "", request |-> NoJSRequest,
               record |-> NilInterface, oldRecord |-> NilInterface]

\* No request has arrived.
NoRequest ==
  /\ httpIn = NoHTTP
  /\ httpOut = NoHTTP
  /\ ctxIn = NoContext
  /\ ctxOut = NoBindings

(***************************************************************************)
(* The hook chains                                                         *)
(***************************************************************************)
Running ==
  /\ last.op # "terminate"
  /\ ~(last.op = "bootstrap" /\ last.err # NilErr)

\* The orders in which FindRecordsByFilter("lambdas", "enabled = true", ...) may list ids.
Orders(S) == {o \in [1..Cardinality(S) -> S] : \A i, j \in DOMAIN o : i # j => o[i] # o[j]}

\* The loop of loadLambdaFunctions leaving at the first failed registration.
RECURSIVE loadLoopStopAtError(_, _, _)
loadLoopStopAtError(r, recs, functions) ==
  IF functions = <<>> THEN r
  ELSE IF registerFunction(r, Head(functions), recs[Head(functions)]).err # NilErr THEN r
  ELSE loadLoopStopAtError(registerFunction(r, Head(functions), recs[Head(functions)]).r,
                           recs, Tail(functions))

\* The loop of loadLambdaFunctions: a failed registration is logged and skipped.
RECURSIVE loadLoop(_, _, _)
loadLoop(r, recs, functions) ==
  IF functions = <<>> THEN r
  ELSE loadLoop(registerFunction(r, Head(functions), recs[Head(functions)]).r, recs, Tail(functions))

\* What the host's persistence answers during the load: FindCollectionByNameOrId
\* finds no lambdas collection, FindRecordsByFilter fails, or both succeed.
Persistence == {"ok", "no collection", "query failed"}

\* loadLambdaFunctions()
loadLambdaFunctions(r, recs, functions, persistence) ==
  IF persistence = "no collection" THEN [r |-> r, err |-> NilErr]
  ELSE IF persistence = "query failed"
         THEN [r |-> r, err |-> "failed to load lambda functions: query failed"]
         ELSE [r |-> loadLoop(r, recs, functions), err |-> NilErr]

SetRegistry(r) ==
  /\ httpRoutes' = r.httpRoutes
  /\ dbTriggers' = r.dbTriggers
  /\ cronJobs' = r.cronJobs
  /\ schedulerJobs' = r.schedulerJobs

\* The OnBootstrap hook bound by registerLifecycleHooks, up to its e.Next():
\* p.scheduler.Start() is its first statement.
StartScheduler ==
  /\ Running /\ ~bootstrapped /\ ~schedulerStarted
  /\ schedulerStarted' = TRUE
  /\ last' = [op |-> "scheduler.Start", id |-> "", err |-> NilErr]
  /\ spawned' = <<>>
  /\ UNCHANGED <<records, httpRoutes, dbTriggers, cronJobs, schedulerJobs, router, routerRoutes,
                 routerRepeats, bootstrapped, concVars, execVars, httpVars, ctxVars>>

\* The OnBootstrap chain is between scheduler.Start and the return of the load.
InBootstrapChain == schedulerStarted /\ ~bootstrapped

\* The OnBootstrap hook bound by RegisterLambdaFunctionPlugin, after its
\* e.Next(): it is reached through the e.Next() of the scheduler start hook.
Bootstrap ==
  /\ Running /\ InBootstrapChain
  /\ \E functions \in Orders({f \in FunctionIds : records[f].exists /\ records[f].enabled}),
        persistence \in Persistence :
       LET res == loadLambdaFunctions(Registry, records, functions, persistence)
       IN /\ persistence = "no collection" => \A f \in FunctionIds : ~records[f].exists
          /\ SetRegistry(res.r)
          /\ routerRoutes' = IF res.err = NilErr
                               THEN registerHTTPRoutes(res.r.httpRoutes, routerRoutes, router)
                               ELSE routerRoutes
          /\ routerRepeats' = (routerRepeats \/ (res.err = NilErr
                                 /\ routeRepeated(res.r.httpRoutes, routerRoutes, router)))
          /\ last' = [op |-> "bootstrap", id |-> "", err |-> res.err]
  /\ bootstrapped' = TRUE
  /\ spawned' = <<>>
  /\ UNCHANGED <<records, schedulerStarted, router, concVars, execVars, httpVars, ctxVars>>

\* The OnServe hook that keeps the router and leaves the table unreconciled.
ServeWithoutReconcile ==
  /\ Running /\ ~router /\ ~InBootstrapChain
  /\ router' = TRUE
  /\ last' = [op |-> "serve", id |-> "", err |-> NilErr]
  /\ spawned' = <<>>
  /\ UNCHANGED <<records, httpRoutes, dbTriggers, cronJobs, schedulerJobs, schedulerStarted, bootstrapped,
                 routerRoutes, routerRepeats, concVars, execVars, httpVars, ctxVars>>

\* The OnServe hook
Serve ==
  /\ Running /\ ~router /\ ~InBootstrapChain
  /\ router' = TRUE
  /\ routerRoutes' = registerHTTPRoutes(httpRoutes, routerRoutes, TRUE)
  /\ routerRepeats' = (routerRepeats \/ routeRepeated(httpRoutes, routerRoutes, TRUE))
  /\ last' = [op |-> "serve", id |-> "", err |-> NilErr]
  /\ spawned' = <<>>
  /\ UNCHANGED <<records, httpRoutes, dbTriggers, cronJobs, schedulerJobs, schedulerStarted, bootstrapped,
                 concVars, execVars, httpVars, ctxVars>>

\* The OnTerminate hook without the call of p.scheduler.Stop().
TerminateWithoutStop ==
  /\ Running /\ bootstrapped
  /\ last' = [op |-> "terminate", id |-> "", err |-> NilErr]
  /\ spawned' = <<>>
  /\ UNCHANGED <<records, httpRoutes, dbTriggers, cronJobs, schedulerJobs, schedulerStarted, router,
                 routerRoutes, routerRepeats, bootstrapped, concVars, execVars, httpVars, ctxVars>>

\* The OnTerminate hook
Terminate ==
  /\ Running /\ bootstrapped
  /\ schedulerStarted' = FALSE
  /\ last' = [op |-> "terminate", id |-> "", err |-> NilErr]
  /\ spawned' = <<>>
  /\ UNCHANGED <<records, httpRoutes, dbTriggers, cronJobs, schedulerJobs, router, routerRoutes,
                 routerRepeats, bootstrapped, concVars, execVars, httpVars, ctxVars>>

\* A hook chain that dispatches the event before it looks at e.Next()'s error.
HostFailsAfterDispatch(op, id) ==
  /\ last' = [op |-> op, id |-> id, err |-> "host error"]
  /\ spawned' = executeFunctionForDBEvent(dbTriggers, "lambdas", op)
  /\ UNCHANGED <<records, httpRoutes, dbTriggers, cronJobs, schedulerJobs, schedulerStarted,
                 router, routerRoutes, routerRepeats, bootstrapped, concVars, execVars, httpVars, ctxVars>>

\* A hook chain whose e.Next() fails: both hooks return the error at once.
HostFails(op, id) ==
  /\ last' = [op |-> op, id |-> id, err |-> "host error"]
  /\ spawned' = <<>>
  /\ UNCHANGED <<records, httpRoutes, dbTriggers, cronJobs, schedulerJobs, schedulerStarted,
                 router, routerRoutes, routerRepeats, bootstrapped, concVars, execVars, httpVars, ctxVars>>

\* The chain after e.Next() with registerHTTPRoutes run whatever the handler returned.
AfterHandlerReconcileOnError(op, id, res, reconcile) ==
  /\ SetRegistry(res.r)
  /\ routerRoutes' = IF reconcile
                       THEN registerHTTPRoutes(res.r.httpRoutes, routerRoutes, router)
                       ELSE routerRoutes
  /\ routerRepeats' = (routerRepeats \/ (reconcile
                                          /\ routeRepeated(res.r.httpRoutes, routerRoutes, router)))
  /\ spawned' = IF res.err = NilErr
                  THEN executeFunctionForDBEvent(res.r.dbTriggers, "lambdas", op)
                  ELSE <<>>
  /\ last' = [op |-> op, id |-> id, err |-> res.err]
  /\ UNCHANGED <<schedulerStarted, router, bootstrapped, concVars, execVars, httpVars, ctxVars>>

\* What a lambdas hook chain does once e.Next() has succeeded: res is what the
\* handler returned; on an error neither registerHTTPRoutes nor the DB dispatch runs.
AfterHandler(op, id, res, reconcile) ==
  /\ SetRegistry(res.r)
  /\ routerRoutes' = IF res.err = NilErr /\ reconcile
                       THEN registerHTTPRoutes(res.r.httpRoutes, routerRoutes, router)
                       ELSE routerRoutes
  /\ routerRepeats' = (routerRepeats \/ (res.err = NilErr /\ reconcile
                                          /\ routeRepeated(res.r.httpRoutes, routerRoutes, router)))
  /\ spawned' = IF res.err = NilErr
                  THEN executeFunctionForDBEvent(res.r.dbTriggers, "lambdas", op)
                  ELSE <<>>
  /\ last' = [op |-> op, id |-> id, err |-> res.err]
  /\ UNCHANGED <<schedulerStarted, router, bootstrapped, concVars, execVars, httpVars, ctxVars>>

\* OnRecordCreate("lambdas") inside OnRecordCreate()
Create(f, record, ok) ==
  /\ Running /\ bootstrapped /\ ~records[f].exists
  /\ IF ok
       THEN /\ records' = [records EXCEPT ![f] = record]
            /\ AfterHandler("create", f, handleFunctionCreated(Registry, f, record), TRUE)
       ELSE HostFails("create", f)

\* OnRecordUpdate("lambdas") inside OnRecordUpdate()
Update(f, record, ok) ==
  /\ Running /\ bootstrapped /\ records[f].exists
  /\ IF ok
       THEN /\ records' = [records EXCEPT ![f] = record]
            /\ AfterHandler("update", f, handleFunctionUpdated(Registry, f, record), TRUE)
       ELSE HostFails("update", f)

\* OnRecordDelete("lambdas") inside OnRecordDelete()
DeleteRecord(f, ok) ==
  /\ Running /\ bootstrapped /\ records[f].exists
  /\ IF ok
       THEN /\ records' = [records EXCEPT ![f] = NoRecord]
            /\ AfterHandler("delete", f,
                            [r |-> handleFunctionDeleted(Registry, f), err |-> NilErr], FALSE)
       ELSE HostFails("delete", f)

\* OnRecordCreate/Update/Delete() for a record of another collection
DBEvent(collection, event, ok) ==
  /\ Running /\ bootstrapped
  /\ IF ok
       THEN /\ spawned' = executeFunctionForDBEvent(dbTriggers, collection, event)
            /\ last' = [op |-> "dbevent", id |-> Sprintf2(collection, event), err |-> NilErr]
            /\ UNCHANGED <<records, httpRoutes, dbTriggers, cronJobs, schedulerJobs, schedulerStarted,
                           router, routerRoutes, routerRepeats, bootstrapped, concVars, execVars, httpVars, ctxVars>>
       ELSE HostFails("dbevent", Sprintf2(collection, event))

Init ==
  /\ records \in [FunctionIds -> RecordValues \cup {NoRecord}]
  /\ httpRoutes = EmptyMap
  /\ dbTriggers = EmptyMap
  /\ cronJobs = EmptyMap
  /\ schedulerJobs = <<>>
  /\ schedulerStarted = FALSE
  /\ router = FALSE
  /\ routerRoutes = {}
  /\ routerRepeats = FALSE
  /\ bootstrapped = FALSE
  /\ last = [op |-> "init", id |-> "", err |-> NilErr]
  /\ spawned = <<>>
  /\ w = [p \in Procs |-> Idle]
  /\ obs = NoObservation
  /\ NoExecutions
  /\ NoRequest

Next ==
  \/ StartScheduler
  \/ Bootstrap
  \/ Serve
  \/ Terminate
  \/ \E f \in FunctionIds, record \in RecordValues, ok \in BOOLEAN : Create(f, record, ok)
  \/ \E f \in FunctionIds, record \in RecordValues, ok \in BOOLEAN : Update(f, record, ok)
  \/ \E f \in FunctionIds, ok \in BOOLEAN : DeleteRecord(f, ok)
  \/ \E event \in Events, ok \in BOOLEAN : DBEvent("posts", event, ok)

Spec == Init /\ [][Next]_vars

(***************************************************************************)
(* Properties of the registry                                              *)
(***************************************************************************)
SeqRange(q) == {q[i] : i \in DOMAIN q}

\* No table of the three holds an entry of function f.
NoEntryIn(routes, triggersMap, jobs, f) ==
  /\ \A k \in DOMAIN routes : routes[k].FunctionID # f
  /\ \A k \in DOMAIN triggersMap : \A i \in DOMAIN triggersMap[k] : triggersMap[k][i].FunctionID # f
  /\ \A k \in DOMAIN jobs : k # f /\ jobs[k].FunctionID # f

NoEntryFor(f) == NoEntryIn(httpRoutes, dbTriggers, cronJobs, f)

\* The hook chain that ran last called registerFunction for last.id, which returned nil.
Registered ==
  /\ last.op \in {"create", "update"}
  /\ last.err = NilErr

\* C1: after registerFunction returned without error for an enabled function f
\* whose triggers text parses to C, every http entry {m, p} of C is in the HTTP
\* route table under upper(m):p with function_id f, and for every database
\* entry {c, e} of C the list at c:e holds an entry with function_id f.
RegisterMakesTriggersResolvable ==
  (Registered /\ records[last.id].enabled /\ records[last.id].triggers.json) =>
    LET f == last.id
        C == records[f].triggers
    IN /\ \A i \in DOMAIN C.http :
            LET key == ToUpper(C.http[i].method) \o ":" \o C.http[i].path
            IN key \in DOMAIN httpRoutes /\ httpRoutes[key].FunctionID = f
       /\ \A i \in DOMAIN C.database :
            LET key == C.database[i].collection \o ":" \o C.database[i].event
            IN /\ key \in DOMAIN dbTriggers
               /\ \E j \in DOMAIN dbTriggers[key] : dbTriggers[key][j].FunctionID = f

\* C1's case: f was registered with http and database entries while another
\* function held the same route key before.
RegisterWitness ==
  /\ Registered /\ records[last.id].enabled /\ records[last.id].triggers.json
  /\ Len(records[last.id].triggers.http) > 1
  /\ Len(records[last.id].triggers.database) > 0
  /\ \E g \in FunctionIds \ {last.id} :
       /\ records[g].exists /\ records[g].enabled
       /\ \E i \in DOMAIN records[g].triggers.http :
            ToUpper(records[g].triggers.http[i].method) = "GET" /\ records[g].triggers.http[i].path = "/a"
       /\ "posts:create" \in DOMAIN dbTriggers /\ Len(dbTriggers["posts:create"]) > 1

\* C2: after handleFunctionDeleted(f) returned, no entry with function_id f is
\* left in the HTTP route table, in a DB trigger list or in the cron job table,
\* and the DB dispatch that follows in the same chain (and any later one, while
\* f has no record) starts no execution for f.
DeleteLeavesNoEntry ==
  /\ (last.op = "delete" /\ last.err = NilErr) =>
        (NoEntryFor(last.id) /\ last.id \notin SeqRange(spawned))
  /\ \A f \in FunctionIds :
        ~records[f].exists => (NoEntryFor(f) /\ f \notin SeqRange(spawned))

\* C2's case: the deleted function had a route the router received, shared a
\* DB trigger list, and the dispatch after the delete started another function.
DeleteWitness ==
  /\ last.op = "delete" /\ last.err = NilErr
  /\ \E route \in routerRoutes : route.FunctionID = last.id
  /\ spawned # <<>>
  /\ "posts:create" \in DOMAIN dbTriggers

\* C3: the tables after handleFunctionUpdated(f with C) are the tables after
\* handleFunctionDeleted(f) followed by registerFunction(f, C); updating f to
\* enabled = false leaves no entry of f.
UpdateIsDeleteThenRegister ==
  [][(last'.op = "update" /\ last'.err # "host error") =>
       LET f == last'.id
           afterDelete == handleFunctionDeleted(Registry, f)
           afterRegister == registerFunction(afterDelete, f, records'[f])
       IN /\ httpRoutes' = afterRegister.r.httpRoutes
          /\ dbTriggers' = afterRegister.r.dbTriggers
          /\ cronJobs' = afterRegister.r.cronJobs
          /\ last'.err = afterRegister.err
          /\ (~records'[f].enabled => NoEntryIn(httpRoutes', dbTriggers', cronJobs', f))]_vars

\* C3's case: an update of a function that had entries in all three tables,
\* and an update to enabled = false of a function that had entries.
UpdateWitness ==
  /\ last.op = "update" /\ last.err = NilErr
  /\ ~records[last.id].enabled
  /\ \E route \in routerRoutes : route.FunctionID = last.id
  /\ DOMAIN httpRoutes # {}

(***************************************************************************)
(* The hook chains step by step: every sync.Map call and every scheduler   *)
(* call of handleFunctionUpdated is a step of its own, and dispatchers     *)
(* read the tables between any two of them.                                *)
(***************************************************************************)
EmptyRegistry == [httpRoutes |-> EmptyMap, dbTriggers |-> EmptyMap, cronJobs |-> EmptyMap,
                  schedulerJobs |-> <<>>]

Busy(f) == \E q \in Procs : w[q].pc # "idle" /\ w[q].f = f

ConcFrame == UNCHANGED <<schedulerStarted, router, bootstrapped, execVars, httpVars, ctxVars>>

\* OnRecordUpdate("lambdas"): e.Next() has saved the record; handleFunctionUpdated
\* enters handleFunctionDeleted, whose first Range starts.
StartUpdate(p, f, record) ==
  /\ w[p].pc = "idle" /\ records[f].exists /\ ~Busy(f)
  /\ records' = [records EXCEPT ![f] = record]
  /\ w' = [w EXCEPT ![p] = [Idle EXCEPT !.pc = "delHTTP", !.op = "update", !.f = f,
                                        !.old = records[f], !.keys = DOMAIN httpRoutes]]
  /\ UNCHANGED <<httpRoutes, dbTriggers, cronJobs, schedulerJobs, routerRoutes, routerRepeats,
                 last, spawned, obs>>
  /\ ConcFrame

\* handleFunctionDeleted: p.httpRoutes.Range visits one key, or ends.
DeleteHTTPStep(p) ==
  /\ w[p].pc = "delHTTP"
  /\ IF w[p].keys = {}
       THEN /\ w' = [w EXCEPT ![p].pc = "delDB", ![p].keys = DOMAIN dbTriggers]
            /\ UNCHANGED httpRoutes
       ELSE \E k \in w[p].keys :
              /\ httpRoutes' = IF k \in DOMAIN httpRoutes /\ httpRoutes[k].FunctionID = w[p].f
                                 THEN Delete(httpRoutes, k)
                                 ELSE httpRoutes
              /\ w' = [w EXCEPT ![p].keys = @ \ {k}]
  /\ UNCHANGED <<records, dbTriggers, cronJobs, schedulerJobs, routerRoutes, routerRepeats,
                 last, spawned, obs>>
  /\ ConcFrame

\* handleFunctionDeleted: p.dbTriggers.Range hands over one key and its list, or ends.
DeleteDBStep(p) ==
  /\ w[p].pc = "delDB"
  /\ IF w[p].keys = {}
       THEN w' = [w EXCEPT ![p].pc = "delCron"]
       ELSE \E k \in w[p].keys :
              w' = IF k \in DOMAIN dbTriggers
                     THEN [w EXCEPT ![p].keys = @ \ {k}, ![p].key = k,
                                    ![p].triggers = dbTriggers[k], ![p].pc = "delDBWrite"]
                     ELSE [w EXCEPT ![p].keys = @ \ {k}]
  /\ UNCHANGED <<records, httpRoutes, dbTriggers, cronJobs, schedulerJobs, routerRoutes,
                 routerRepeats, last, spawned, obs>>
  /\ ConcFrame

\* handleFunctionDeleted: the filtered list is stored, or the key deleted.
DeleteDBWrite(p) ==
  /\ w[p].pc = "delDBWrite"
  /\ LET filtered == filterTriggers(w[p].triggers, w[p].f)
     IN dbTriggers' = IF Len(filtered) = 0
                        THEN Delete(dbTriggers, w[p].key)
                        ELSE Store(dbTriggers, w[p].key, filtered)
  /\ w' = [w EXCEPT ![p].pc = "delDB", ![p].key = "", ![p].triggers = <<>>]
  /\ UNCHANGED <<records, httpRoutes, cronJobs, schedulerJobs, routerRoutes, routerRepeats,
                 last, spawned, obs>>
  /\ ConcFrame

\* handleFunctionDeleted taking the entry out of the cron job table and leaving
\* the scheduler as it is.
DeleteCronStepNoRemove(p) ==
  /\ w[p].pc = "delCron"
  /\ cronJobs' = IF w[p].f \in DOMAIN cronJobs THEN Delete(cronJobs, w[p].f) ELSE cronJobs
  /\ w' = [w EXCEPT ![p].pc = IF w[p].op = "delete" THEN "dispatch" ELSE "reg"]
  /\ UNCHANGED <<records, httpRoutes, dbTriggers, schedulerJobs, routerRoutes, routerRepeats,
                 last, spawned, obs>>
  /\ ConcFrame

\* handleFunctionDeleted: p.cronJobs.LoadAndDelete(functionID)
DeleteCronStep(p) ==
  /\ w[p].pc = "delCron"
  /\ IF w[p].f \in DOMAIN cronJobs
       THEN /\ cronJobs' = Delete(cronJobs, w[p].f)
            /\ w' = [w EXCEPT ![p].pc = "delSched", ![p].key = cronJobs[w[p].f].JobID]
       ELSE /\ UNCHANGED cronJobs
            /\ w' = [w EXCEPT ![p].pc = IF w[p].op = "delete" THEN "dispatch" ELSE "reg"]
  /\ UNCHANGED <<records, httpRoutes, dbTriggers, schedulerJobs, routerRoutes, routerRepeats,
                 last, spawned, obs>>
  /\ ConcFrame

\* handleFunctionDeleted: p.scheduler.Remove(cronJob.JobID)
DeleteSchedStep(p) ==
  /\ w[p].pc = "delSched"
  /\ schedulerJobs' = schedulerRemove(schedulerJobs, w[p].key)
  /\ w' = [w EXCEPT ![p].pc = IF w[p].op = "delete" THEN "dispatch" ELSE "reg", ![p].key = ""]
  /\ UNCHANGED <<records, httpRoutes, dbTriggers, cronJobs, routerRoutes, routerRepeats,
                 last, spawned, obs>>
  /\ ConcFrame

\* The chain returns err: the goroutine is done.
Return(p, err) ==
  /\ w' = [w EXCEPT ![p] = Idle]
  /\ last' = [op |-> w[p].op, id |-> w[p].f, err |-> err]

\* registerFunction: the enabled test and json.Unmarshal
RegisterStart(p) ==
  /\ w[p].pc = "reg"
  /\ LET function == records[w[p].f]
         parsed == jsonUnmarshal(function.triggers)
     IN IF ~function.enabled
          THEN w' = [w EXCEPT ![p].pc = "routes"] /\ UNCHANGED last
          ELSE IF parsed.err # NilErr
                 THEN Return(p, "invalid trigger configuration: " \o parsed.err)
                 ELSE w' = [w EXCEPT ![p].pc = "regHTTP", ![p].i = 1] /\ UNCHANGED last
  /\ UNCHANGED <<records, httpRoutes, dbTriggers, cronJobs, schedulerJobs, routerRoutes,
                 routerRepeats, spawned, obs>>
  /\ ConcFrame

\* registerFunction: one turn of the HTTP triggers loop
RegisterHTTPStep(p) ==
  /\ w[p].pc = "regHTTP"
  /\ LET httpTriggers == records[w[p].f].triggers.http
     IN IF w[p].i > Len(httpTriggers)
          THEN /\ w' = [w EXCEPT ![p].pc = "regDB", ![p].i = 1]
               /\ UNCHANGED httpRoutes
          ELSE /\ httpRoutes' = registerHTTPTrigger(Registry, w[p].f,
                                   ToUpper(httpTriggers[w[p].i].method),
                                   httpTriggers[w[p].i].path).httpRoutes
               /\ w' = [w EXCEPT ![p].i = @ + 1]
  /\ UNCHANGED <<records, dbTriggers, cronJobs, schedulerJobs, routerRoutes, routerRepeats,
                 last, spawned, obs>>
  /\ ConcFrame

\* registerDatabaseTrigger: p.dbTriggers.LoadOrStore(key, empty list)
RegisterDBLoad(p) ==
  /\ w[p].pc = "regDB"
  /\ LET dbTrigs == records[w[p].f].triggers.database
         key == Sprintf2(dbTrigs[w[p].i].collection, dbTrigs[w[p].i].event)
     IN IF w[p].i > Len(dbTrigs)
          THEN /\ w' = [w EXCEPT ![p].pc = "regCron", ![p].i = 1]
               /\ UNCHANGED dbTriggers
          ELSE IF key \in DOMAIN dbTriggers
                 THEN /\ w' = [w EXCEPT ![p].pc = "regDBStore", ![p].key = key,
                                        ![p].triggers = dbTriggers[key]]
                      /\ UNCHANGED dbTriggers
                 ELSE /\ w' = [w EXCEPT ![p].pc = "regDBStore", ![p].key = key,
                                        ![p].triggers = <<>>]
                      /\ dbTriggers' = Store(dbTriggers, key, <<>>)
  /\ UNCHANGED <<records, httpRoutes, cronJobs, schedulerJobs, routerRoutes, routerRepeats,
                 last, spawned, obs>>
  /\ ConcFrame

\* registerDatabaseTrigger: p.dbTriggers.Store(key, updatedTriggers)
RegisterDBStore(p) ==
  /\ w[p].pc = "regDBStore"
  /\ LET dbTrigger == records[w[p].f].triggers.database[w[p].i]
         trigger == [FunctionID |-> w[p].f, Collection |-> dbTrigger.collection,
                     Event |-> dbTrigger.event]
     IN dbTriggers' = Store(dbTriggers, w[p].key, Append(w[p].triggers, trigger))
  /\ w' = [w EXCEPT ![p].pc = "regDB", ![p].i = @ + 1, ![p].key = "", ![p].triggers = <<>>]
  /\ UNCHANGED <<records, httpRoutes, cronJobs, schedulerJobs, routerRoutes, routerRepeats,
                 last, spawned, obs>>
  /\ ConcFrame

\* registerCronTrigger: p.scheduler.MustAdd(jobID, schedule, ...)
RegisterCronAdd(p) ==
  /\ w[p].pc = "regCron"
  /\ LET cronTriggers == records[w[p].f].triggers.cron
     IN IF w[p].i > Len(cronTriggers)
          THEN /\ w' = [w EXCEPT ![p].pc = "routes", ![p].i = 0]
               /\ UNCHANGED schedulerJobs
          ELSE /\ schedulerJobs' = schedulerMustAdd(schedulerJobs, "lambda_function_" \o w[p].f,
                                                    cronTriggers[w[p].i].schedule)
               /\ w' = [w EXCEPT ![p].pc = "regCronStore"]
  /\ UNCHANGED <<records, httpRoutes, dbTriggers, cronJobs, routerRoutes, routerRepeats,
                 last, spawned, obs>>
  /\ ConcFrame

\* registerCronTrigger: p.cronJobs.Store(functionID, job)
RegisterCronStore(p) ==
  /\ w[p].pc = "regCronStore"
  /\ LET schedule == records[w[p].f].triggers.cron[w[p].i].schedule
         job == [FunctionID |-> w[p].f, Schedule |-> schedule,
                 JobID |-> "lambda_function_" \o w[p].f]
     IN cronJobs' = Store(cronJobs, w[p].f, job)
  /\ w' = [w EXCEPT ![p].pc = "regCron", ![p].i = @ + 1]
  /\ UNCHANGED <<records, httpRoutes, dbTriggers, schedulerJobs, routerRoutes, routerRepeats,
                 last, spawned, obs>>
  /\ ConcFrame

\* handleFunctionCreated / handleFunctionUpdated: p.registerHTTPRoutes()
RoutesStep(p) ==
  /\ w[p].pc = "routes"
  /\ routerRoutes' = registerHTTPRoutes(httpRoutes, routerRoutes, router)
  /\ routerRepeats' = (routerRepeats \/ routeRepeated(httpRoutes, routerRoutes, router))
  /\ w' = [w EXCEPT ![p].pc = "dispatch"]
  /\ UNCHANGED <<records, httpRoutes, dbTriggers, cronJobs, schedulerJobs, last, spawned, obs>>
  /\ ConcFrame

\* The OnRecordCreate/Update/Delete() hook around the chain: executeFunctionForDBEvent
DispatchStep(p) ==
  /\ w[p].pc = "dispatch"
  /\ spawned' = executeFunctionForDBEvent(dbTriggers, "lambdas", w[p].op)
  /\ Return(p, NilErr)
  /\ UNCHANGED <<records, httpRoutes, dbTriggers, cronJobs, schedulerJobs, routerRoutes,
                 routerRepeats, obs>>
  /\ ConcFrame

\* The entries of function f a reader finds in the tables of registry r.
ViewOf(r, f) ==
  [http |-> {k \in DOMAIN r.httpRoutes : r.httpRoutes[k].FunctionID = f},
   db   |-> {k \in DOMAIN r.dbTriggers :
               \E i \in DOMAIN r.dbTriggers[k] : r.dbTriggers[k][i].FunctionID = f},
   cron |-> IF f \in DOMAIN r.cronJobs THEN r.cronJobs[f].Schedule ELSE ""]

\* A dispatcher reads the entries of f in the three tables.
Observe(f) ==
  /\ LET view == ViewOf(Registry, f)
         old == IF \E q \in Procs : w[q].pc # "idle" /\ w[q].f = f /\ w[q].op = "update"
                  THEN w[CHOOSE q \in Procs : w[q].pc # "idle" /\ w[q].f = f].old
                  ELSE records[f]
     IN obs' = [f |-> f, http |-> view.http, db |-> view.db, cron |-> view.cron,
                old |-> old, new |-> records[f]]
  /\ UNCHANGED <<records, httpRoutes, dbTriggers, cronJobs, schedulerJobs, routerRoutes,
                 routerRepeats, last, spawned, w>>
  /\ ConcFrame

\* The records updates are made with here, and the record of the other function.
ConcRecords ==
  { Rec(TRUE, t) : t \in {tt \in TriggerTexts : tt.json /\ (tt.http # <<>> \/ tt.cron # <<>>)} }
    \cup { Rec(FALSE, SomeText) }

OtherRecord ==
  Rec(TRUE, [json |-> TRUE, http |-> <<>>,
             database |-> << [collection |-> "posts", event |-> "create"] >>,
             cron |-> << [schedule |-> "0 0 * * *"] >>])

\* The plugin after bootstrap and serve, the stored functions registered.
InitConc ==
  /\ records \in [FunctionIds -> ConcRecords \cup {OtherRecord}]
  /\ records["f1"] \in ConcRecords /\ records["f2"] = OtherRecord
  /\ LET r == loadLambdaFunctions(EmptyRegistry, records, <<"f1", "f2">>, "ok").r
     IN /\ httpRoutes = r.httpRoutes
        /\ dbTriggers = r.dbTriggers
        /\ cronJobs = r.cronJobs
        /\ schedulerJobs = r.schedulerJobs
        /\ routerRoutes = registerHTTPRoutes(r.httpRoutes, {}, TRUE)
  /\ routerRepeats = FALSE
  /\ schedulerStarted = TRUE
  /\ router = TRUE
  /\ bootstrapped = TRUE
  /\ last = [op |-> "serve", id |-> "", err |-> NilErr]
  /\ spawned = <<>>
  /\ w = [p \in Procs |-> Idle]
  /\ obs = NoObservation
  /\ NoExecutions
  /\ NoRequest

NextConc ==
  \/ \E record \in ConcRecords : StartUpdate("w1", "f1", record)
  \/ DeleteHTTPStep("w1")
  \/ DeleteDBStep("w1")
  \/ DeleteDBWrite("w1")
  \/ DeleteCronStep("w1")
  \/ DeleteSchedStep("w1")
  \/ RegisterStart("w1")
  \/ RegisterHTTPStep("w1")
  \/ RegisterDBLoad("w1")
  \/ RegisterDBStore("w1")
  \/ RegisterCronAdd("w1")
  \/ RegisterCronStore("w1")
  \/ RoutesStep("w1")
  \/ DispatchStep("w1")
  \/ Observe("f1")

SpecConc == InitConc /\ [][NextConc]_vars

\* What a reader finds of f when f is registered alone with record rec.
ExpectedView(f, rec) == ViewOf(registerFunction(EmptyRegistry, f, rec).r, f)

\* C4: a dispatcher that reads the tables while handleFunctionUpdated(f) runs
\* finds f's old configuration in all three tables or f's new configuration in
\* all three, never a mixture.
ReaderSeesOldOrNew ==
  obs.f # "" =>
    LET seen == [http |-> obs.http, db |-> obs.db, cron |-> obs.cron]
    IN seen = ExpectedView(obs.f, obs.old) \/ seen = ExpectedView(obs.f, obs.new)

\* With no update in progress the tables hold exactly the stored configuration.
QuiescentViewIsStored ==
  (\A q \in Procs : w[q].pc = "idle") =>
     (last.err = NilErr => ViewOf(Registry, "f1") = ExpectedView("f1", records["f1"]))

(***************************************************************************)
(* The execution engine                                                    *)
(***************************************************************************)
\* An integral number (exported as int64), a string.
JSNumber(n) == Val("int64", "", n, <<>>)
JSString(str) == Val("string", str, 0, <<>>)

SetX == "globalThis.x = 1; x"
TypeofX == "typeof x"
Loop == "while(true){}"
Throw == "throw new Error('boom')"

ScriptCodes == {SetX, TypeofX, Loop, Throw}

\* vm.RunString(code) in a runtime whose user globals are globals: whether it
\* ends, the value and error it returns, and the globals afterwards.
RunString(code, globals) ==
  CASE code = SetX ->
         [ends |-> TRUE, value |-> JSNumber(1), err |-> NilErr, globals |-> globals \cup {"x"}]
    [] code = TypeofX ->
         [ends |-> TRUE, value |-> JSString(IF "x" \in globals THEN "number" ELSE "undefined"),
          err |-> NilErr, globals |-> globals]
    [] code = Throw ->
         [ends |-> TRUE, value |-> Nil, err |-> "Error: boom", globals |-> globals]
    [] OTHER ->
         [ends |-> FALSE, value |-> Nil, err |-> NilErr, globals |-> globals]

\* RegisterLambdaFunctionPlugin: a MaxExecutionTime of 0 becomes the default.
withDefaults(maxExecutionTime, poolSize) ==
  [MaxExecutionTime |-> IF maxExecutionTime = 0 THEN DefaultMaxExecutionTime ELSE maxExecutionTime,
   PoolSize |-> poolSize]

\* executeFunction taking the pool's first runtime for every call.
createVMReused == CHOOSE v \in VMIds : \A u \in VMIds : v <= u

\* p.createVM(): goja.New() makes a runtime of its own.
createVM == nextVM

\* The error of p.app.FindRecordById for an id without record.
lookupErr == "sql: no rows in result set"

formatError(err) == IF err = NilErr THEN "" ELSE err

\* executeFunction without the enabled test.
earlyReturnNoEnabledTest(function) ==
  IF ~function.exists
    THEN [returns |-> TRUE, Error |-> "Function not found: " \o lookupErr]
    ELSE [returns |-> FALSE, Error |-> ""]

\* executeFunction: the returns before a runtime is made.
earlyReturn(function) ==
  IF ~function.exists
    THEN [returns |-> TRUE, Error |-> "Function not found: " \o lookupErr]
    ELSE IF ~function.enabled
           THEN [returns |-> TRUE, Error |-> "Function is disabled"]
           ELSE [returns |-> FALSE, Error |-> ""]

\* context.WithTimeout(context.Background(), p.config.MaxExecutionTime)
executionDeadline(start, function) == start + config.MaxExecutionTime

\* executeWithContext with the deadline branch returning what the goroutine has.
executeWithContextSharedResult(branch, value, err) ==
  [output |-> value, err |-> err]

\* executeWithContext: what the select returns on each branch.
executeWithContext(branch, value, err) ==
  IF branch = "ctx.Done"
    THEN [output |-> Nil, err |-> "execution timeout"]
    ELSE [output |-> value, err |-> err]

\* The result with Success set whatever the error.
executionResultAlwaysSuccess(output, err) ==
  [Success |-> TRUE, Output |-> output, Error |-> formatError(err)]

\* executeFunction: the LambdaFunctionExecutionResult built from (output, err).
executionResult(output, err) ==
  [Success |-> err = NilErr, Output |-> output, Error |-> formatError(err)]

FreeExecs == {e \in ExecIds : execs[e].state = "free"}

ExecFrame == UNCHANGED <<regVars, concVars, httpVars, ctxVars, config>>

\* executeFunction(ctx) with ctx.FunctionID = f, up to the go statement of
\* executeWithContext: the goroutine is started, the caller is before its select.
ExecStart(f) ==
  /\ FreeExecs # {}
  /\ LET e == CHOOSE x \in FreeExecs : \A y \in FreeExecs : x <= y
         function == records[f]
         early == earlyReturn(function)
         vm == createVM
     IN IF early.returns
          THEN /\ execs' = [execs EXCEPT ![e] =
                              [NoExec EXCEPT !.state = "returned", !.FunctionID = f,
                                             !.StartTime = now,
                                             !.result = [Success |-> FALSE, Output |-> Nil,
                                                         Error |-> early.Error]]]
               /\ UNCHANGED nextVM
          ELSE /\ execs' = [execs EXCEPT ![e] =
                              [NoExec EXCEPT !.state = "spawned", !.FunctionID = f, !.vm = vm,
                                             !.code = function.code, !.StartTime = now,
                                             !.deadline = executionDeadline(now, function)]]
               /\ nextVM' = nextVM + 1
  /\ UNCHANGED <<vmGlobals, now>>
  /\ ExecFrame

\* The call e after its select took the given branch: executeWithContext
\* returns and executeFunction builds the result.
ReturnVia(e, branch) ==
  LET got == executeWithContext(branch, execs[e].evalValue, execs[e].evalErr)
  IN [execs[e] EXCEPT !.state = "returned", !.timedOut = (branch = "ctx.Done"),
                      !.doneAtReturn = execs[e].evalDone,
                      !.result = executionResult(got.output, got.err),
                      !.Duration = now - execs[e].StartTime]

\* The caller reaches its select: a ready case is taken (any of them when both
\* are ready), and with none ready the caller parks.
Select(e) ==
  /\ execs[e].state = "spawned"
  /\ LET ready == (IF now >= execs[e].deadline THEN {"ctx.Done"} ELSE {})
                    \cup (IF execs[e].evalDone THEN {"done"} ELSE {})
     IN IF ready = {}
          THEN execs' = [execs EXCEPT ![e].state = "parked"]
          ELSE \E branch \in ready : execs' = [execs EXCEPT ![e] = ReturnVia(e, branch)]
  /\ UNCHANGED <<vmGlobals, nextVM, now>>
  /\ ExecFrame

\* The goroutine's vm.RunString ends and done is closed: a caller parked in the
\* select is woken on that case; otherwise the values stay in the goroutine's
\* variables (for a caller not yet at its select, or for nobody after a timeout).
EvalFinish(e) ==
  /\ execs[e].state \in {"spawned", "parked", "returned"}
  /\ execs[e].vm # 0
  /\ ~execs[e].evalDone
  /\ LET run == RunString(execs[e].code, vmGlobals[execs[e].vm])
         ended == [execs EXCEPT ![e].evalDone = TRUE, ![e].evalValue = run.value,
                                ![e].evalErr = run.err]
     IN /\ run.ends
        /\ vmGlobals' = [vmGlobals EXCEPT ![execs[e].vm] = run.globals]
        /\ IF execs[e].state = "parked"
             THEN execs' = [ended EXCEPT ![e] =
                              [ReturnVia(e, "done") EXCEPT
                                 !.evalDone = TRUE, !.evalValue = run.value, !.evalErr = run.err,
                                 !.doneAtReturn = TRUE,
                                 !.result = executionResult(
                                              executeWithContext("done", run.value, run.err).output,
                                              executeWithContext("done", run.value, run.err).err)]]
             ELSE execs' = ended
  /\ UNCHANGED <<nextVM, now>>
  /\ ExecFrame

\* A select without the ctx.Done() case: a parked caller waits for the goroutine.
TimeoutWaitsForDone(e) ==
  /\ execs[e].state = "parked"
  /\ now >= execs[e].deadline
  /\ execs[e].evalDone
  /\ execs' = [execs EXCEPT ![e] = ReturnVia(e, "done")]
  /\ UNCHANGED <<vmGlobals, nextVM, now>>
  /\ ExecFrame

\* The deadline passes while the caller is parked in the select: ctx.Done() wakes it.
Timeout(e) ==
  /\ execs[e].state = "parked"
  /\ now >= execs[e].deadline
  /\ execs' = [execs EXCEPT ![e] = ReturnVia(e, "ctx.Done")]
  /\ UNCHANGED <<vmGlobals, nextVM, now>>
  /\ ExecFrame

Unreturned == {e \in ExecIds : execs[e].state \in {"spawned", "parked"}}

\* Time passes up to the next deadline of a call that has not returned; a
\* parked caller is woken at its deadline before time passes further.
Tick ==
  /\ \A e \in ExecIds : execs[e].state = "parked" => execs[e].deadline > now
  /\ LET ahead == {execs[e].deadline : e \in {x \in Unreturned : execs[x].deadline > now}}
     IN /\ ahead # {}
        /\ now' = CHOOSE t \in ahead : \A u \in ahead : t <= u
  /\ UNCHANGED <<execs, vmGlobals, nextVM>>
  /\ ExecFrame

\* A save of a function's record that replaces one of the two scripts reading
\* and writing the global x by the other.
SaveCode(f, code) ==
  /\ records[f].exists /\ records[f].enabled
  /\ {records[f].code, code} = {SetX, TypeofX}
  /\ records' = [records EXCEPT ![f].code = code]
  /\ UNCHANGED <<regTables, schedulerJobs, schedulerStarted, router, routerRoutes,
                 routerRepeats, bootstrapped, last, spawned>>
  /\ UNCHANGED <<concVars, execVars, httpVars, ctxVars>>

\* The records executions find: none, a disabled one, or an enabled script.
ExecRecords(ms) ==
  { NoRecord, [Rec(FALSE, SomeText) EXCEPT !.code = SetX, !.timeout = ms] }
    \cup { [Rec(TRUE, SomeText) EXCEPT !.code = c, !.timeout = ms] : c \in ScriptCodes }

\* The values config.MaxExecutionTime is given, in seconds (0: left unset).
ConfiguredTimes == {0, 2}

InitExec ==
  /\ \E r1 \in ExecRecords(1000), r2 \in {r \in ExecRecords(2000) : r.exists /\ (r.code = Throw \/ ~r.enabled)} :
       records = [f \in FunctionIds |-> IF f = "f1" THEN r1 ELSE r2]
  /\ httpRoutes = EmptyMap
  /\ dbTriggers = EmptyMap
  /\ cronJobs = EmptyMap
  /\ schedulerJobs = <<>>
  /\ schedulerStarted = TRUE
  /\ router = TRUE
  /\ routerRoutes = {}
  /\ routerRepeats = FALSE
  /\ bootstrapped = TRUE
  /\ last = [op |-> "serve", id |-> "", err |-> NilErr]
  /\ spawned = <<>>
  /\ w = [p \in Procs |-> Idle]
  /\ obs = NoObservation
  /\ \E t \in ConfiguredTimes : config = withDefaults(t, PoolSize)
  /\ nextVM = PoolSize + 1
  /\ execs = [e \in ExecIds |-> NoExec]
  /\ vmGlobals = [v \in VMIds |-> {}]
  /\ now = 0
  /\ NoRequest

NextExec ==
  \/ \E f \in FunctionIds : ExecStart(f)
  \/ \E e \in ExecIds : Select(e)
  \/ \E e \in ExecIds : EvalFinish(e)
  \/ \E e \in ExecIds : Timeout(e)
  \/ Tick
  \/ \E f \in FunctionIds, code \in {SetX, TypeofX} : SaveCode(f, code)

SpecExec == InitExec /\ [][NextExec]_vars

\* The caller's goroutine is scheduled and the runtime's timers fire: a caller
\* at its select takes it, time reaches the next deadline, and a caller parked
\* past its deadline is woken. Nothing is assumed of the evaluating goroutine.
SpecExecFair ==
  /\ SpecExec
  /\ \A e \in ExecIds : WF_vars(Select(e)) /\ WF_vars(Timeout(e))
  /\ WF_vars(Tick)

(***************************************************************************)
(* Claims about the execution engine                                       *)
(***************************************************************************)
\* The calls that made a runtime.
Evaluating == {e \in ExecIds : execs[e].vm # 0}

TimeoutResult == [Success |-> FALSE, Output |-> Nil, Error |-> "execution timeout"]

\* C5: each call of executeFunction evaluates in a runtime made for it: no two
\* calls share a runtime, none is a runtime of the prewarmed pool, and so
\* `typeof x` yields "undefined" (and `globalThis.x = 1; x` yields 1) whatever
\* other executions of the same or another function ran before or meanwhile.
EachExecutionHasItsOwnRuntime ==
  /\ \A e \in Evaluating : execs[e].vm > config.PoolSize
  /\ \A e1, e2 \in Evaluating : e1 # e2 => execs[e1].vm # execs[e2].vm
  /\ \A e \in Evaluating :
       execs[e].evalDone =>
         /\ execs[e].code = TypeofX => execs[e].evalValue = JSString("undefined")
         /\ execs[e].code = SetX => execs[e].evalValue = JSNumber(1)

\* Two executions of the same function have ended, the first started assigned
\* the global and the second asked for its type.
IsolationWitness ==
  \E e1, e2 \in Evaluating :
    /\ e1 < e2
    /\ execs[e1].FunctionID = execs[e2].FunctionID
    /\ execs[e1].code = SetX /\ execs[e1].evalDone
    /\ execs[e2].code = TypeofX /\ execs[e2].evalDone
    /\ execs[e2].result = [Success |-> TRUE, Output |-> JSString("undefined"), Error |-> ""]

\* The runtimes made so far are the pool's and one per call that evaluates.
NoRuntimeForEarlyReturn == nextVM = config.PoolSize + 1 + Cardinality(Evaluating)

DeadlineIsFunctionTimeout ==
  \A e \in Evaluating :
    (execs[e].deadline - execs[e].StartTime) * 1000 = records[execs[e].FunctionID].timeout

HasSuffix(str, suffix) ==
  Len(str) >= Len(suffix) /\ SubSeq(str, Len(str) - Len(suffix) + 1, Len(str)) = suffix

Contains(str, sub) ==
  \E i \in 1..(Len(str) - Len(sub) + 1) : SubSeq(str, i, i + Len(sub) - 1) = sub

WhiteSpace == {" ", "\n", "\t", "\r"}

RECURSIVE TrimLeft(_)
TrimLeft(str) ==
  IF str # "" /\ SubSeq(str, 1, 1) \in WhiteSpace
    THEN TrimLeft(SubSeq(str, 2, Len(str)))
    ELSE str

RECURSIVE TrimRight(_)
TrimRight(str) ==
  IF str # "" /\ SubSeq(str, Len(str), Len(str)) \in WhiteSpace
    THEN TrimRight(SubSeq(str, 1, Len(str) - 1))
    ELSE str

TrimSpace(str) == TrimRight(TrimLeft(str))

JSFloat(tenths) == Val("float64", "", tenths, <<>>)
JSBool(b) == Val("bool", IF b THEN "true" ELSE "false", 0, <<>>)

\* A *goja.Object whose Export() is a map[string]interface{} with these members.
JSObject(fields) == Val("object", "", 0, fields)

\* A *goja.Object whose Export() is a []interface{}; str is its JSON text.
JSArray(str) == Val("array", str, 0, <<>>)

\* A map[string]interface{} member of an exported map.
GoMap(fields) == Val("map", "", 0, fields)

\* strconv's text of a non-negative float64 given in tenths.
FormatFloat(tenths) ==
  IF tenths % 10 = 0
    THEN ToString(tenths \div 10)
    ELSE ToString(tenths \div 10) \o "." \o ToString(tenths % 10)

\* fmt.Sprintf("%v", value)
Sprintv(value) ==
  CASE value.type = "string" -> value.str
    [] value.type = "int64" -> ToString(value.num)
    [] value.type = "float64" -> FormatFloat(value.num)
    [] value.type = "bool" -> value.str
    [] value.type = "nil" -> "<nil>"

\* The member names in use, in the byte order json.Marshal sorts map keys by.
KeyOrder == <<"Content-Type", "X-A", "a", "body", "content-type", "headers", "pong", "status">>

sortedKeys(keys) == SelectSeq(KeyOrder, LAMBDA k : k \in keys)

\* encoding/json's escapes inside a string (HTML escaping on, as e.JSON has it).
RECURSIVE escape(_)
escape(str) ==
  IF str = ""
    THEN ""
    ELSE LET c == SubSeq(str, 1, 1)
         IN (CASE c = "\"" -> "\\\""
               [] c = "\\" -> "\\\\"
               [] c = "\n" -> "\\n"
               [] c = "<" -> "\\u003c"
               [] c = ">" -> "\\u003e"
               [] c = "&" -> "\\u0026"
               [] OTHER -> c) \o escape(SubSeq(str, 2, Len(str)))

quote(str) == "\"" \o escape(str) \o "\""

RECURSIVE toJSON(_)
RECURSIVE members(_, _)
\* The members of a map as JSON, in the given order of keys.
members(m, keys) ==
  IF keys = <<>>
    THEN ""
    ELSE quote(Head(keys)) \o ":" \o toJSON(m[Head(keys)])
           \o (IF Len(keys) > 1 THEN "," ELSE "") \o members(m, Tail(keys))

\* json.Marshal(value)
toJSON(value) ==
  CASE value.type = "nil" -> "null"
    [] value.type = "string" -> quote(value.str)
    [] value.type = "int64" -> ToString(value.num)
    [] value.type = "float64" -> FormatFloat(value.num)
    [] value.type = "bool" -> value.str
    [] value.type = "array" -> value.str
    [] value.type \in {"object", "map"} ->
         "{" \o members(value.fields, sortedKeys(DOMAIN value.fields)) \o "}"

\* The clauses of detectContentType on the trimmed content.
looksHTML(content) ==
  \/ HasPrefix(content, "<!DOCTYPE html")
  \/ HasPrefix(content, "<html")
  \/ Contains(content, "<body")
  \/ Contains(content, "<div")
  \/ Contains(content, "<span")

looksJSON(content) ==
  \/ HasPrefix(content, "{") /\ HasSuffix(content, "}")
  \/ HasPrefix(content, "[") /\ HasSuffix(content, "]")

looksXML(content) ==
  \/ HasPrefix(content, "<?xml")
  \/ HasPrefix(content, "<") /\ Contains(content, ">")

looksCSS(content) ==
  /\ Contains(content, "{") /\ Contains(content, "}")
  /\ \/ Contains(content, "color:") \/ Contains(content, "font-")
     \/ Contains(content, "margin:") \/ Contains(content, "padding:")

looksJavaScript(content) ==
  \/ Contains(content, "function") \/ Contains(content, "var ")
  \/ Contains(content, "let ") \/ Contains(content, "const ")
  \/ Contains(content, "console.log") \/ Contains(content, "document.")

\* detectContentType with the JSON test ahead of the HTML test.
detectContentTypeJSONFirst(body) ==
  LET content == TrimSpace(body)
  IN IF looksJSON(content) THEN "application/json"
     ELSE IF looksHTML(content) THEN "text/html"
     ELSE IF looksXML(content) THEN "application/xml"
     ELSE IF looksCSS(content) THEN "text/css"
     ELSE IF looksJavaScript(content) THEN "application/javascript"
     ELSE "text/plain"

detectContentType(body) ==
  LET content == TrimSpace(body)
  IN IF looksHTML(content) THEN "text/html"
     ELSE IF looksJSON(content) THEN "application/json"
     ELSE IF looksXML(content) THEN "application/xml"
     ELSE IF looksCSS(content) THEN "text/css"
     ELSE IF looksJavaScript(content) THEN "application/javascript"
     ELSE "text/plain"

\* Header names kept as the script wrote them.
CanonicalHeaderKeyVerbatim(key) == key

\* textproto.CanonicalMIMEHeaderKey on the header names in use.
CanonicalHeaderKey(key) == IF key = "content-type" THEN "Content-Type" ELSE key

\* e.Response.Header().Set(key, value)
HeaderSet(header, key, value) == Store(header, CanonicalHeaderKey(key), value)

\* e.Response.Header().Get(key)
HeaderGet(header, key) ==
  IF CanonicalHeaderKey(key) \in DOMAIN header THEN header[CanonicalHeaderKey(key)] ELSE ""

NoApiError == [status |-> 0, message |-> "", raw |-> ""]

\* The response before the handler runs: nothing written, no handler error.
NoResponse == [written |-> FALSE, status |-> 0, header |-> EmptyMap, body |-> "", err |-> NoApiError]

\* fmt.Errorf(format) without operands, for formats whose % is followed by a
\* letter, by % or by nothing: the text of the error made.
RECURSIVE Errorf(_)
Errorf(format) ==
  IF format = ""
    THEN ""
    ELSE IF SubSeq(format, 1, 1) # "%"
      THEN SubSeq(format, 1, 1) \o Errorf(SubSeq(format, 2, Len(format)))
      ELSE IF Len(format) = 1
        THEN "%!(NOVERB)"
        ELSE IF SubSeq(format, 2, 2) = "%"
          THEN "%" \o Errorf(SubSeq(format, 3, Len(format)))
          ELSE "%!" \o SubSeq(format, 2, 2) \o "(MISSING)"
                 \o Errorf(SubSeq(format, 3, Len(format)))

\* e.InternalServerError(message, err): the handler returns a 500 ApiError.
InternalServerError(response, message, raw) ==
  [response EXCEPT !.err = [status |-> 500, message |-> message, raw |-> raw]]

\* e.Response.WriteHeader(status) and e.Response.Write(body)
Write(response, status, body) ==
  [response EXCEPT !.written = TRUE, !.status = status, !.body = body]

\* e.JSON(status, data): application/json unless a Content-Type is set already.
eJSON(response, status, data) ==
  Write([response EXCEPT !.header = IF HeaderGet(@, "Content-Type") = ""
                                      THEN HeaderSet(@, "Content-Type", "application/json")
                                      ELSE @],
        status, toJSON(data))

\* for key, value := range headers { Header().Set(key, ...) }, visiting in this order
RECURSIVE setHeaders(_, _, _)
setHeaders(header, headers, order) ==
  IF order = <<>>
    THEN header
    ELSE setHeaders(HeaderSet(header, Head(order), Sprintv(headers[Head(order)])),
                    headers, Tail(order))

\* The members of the response object read as status, headers and body.
descriptorStatus(responseMap) ==
  IF "status" \in DOMAIN responseMap /\ responseMap["status"].type = "float64"
    THEN responseMap["status"].num \div 10
    ELSE 200

descriptorHeaders(responseMap) ==
  IF "headers" \in DOMAIN responseMap /\ responseMap["headers"].type = "map"
    THEN responseMap["headers"].fields
    ELSE EmptyMap

\* The Content-Type from the body alone, the configured contentType left unread.
defaultContentTypeDetectOnly(function, bodyStr) ==
  IF function.exists THEN detectContentType(bodyStr) ELSE "text/plain"

\* The Content-Type given to a string body when the headers set none.
defaultContentType(function, bodyStr) ==
  IF function.exists
    THEN IF function.contentType # "" /\ function.contentType # "auto"
           THEN function.contentType
           ELSE detectContentType(bodyStr)
    ELSE "text/plain"

\* The handler made by createHTTPHandler, from the result executeFunction
\* returned; function is what FindRecordById gives when the handler re-reads
\* the record, order the order in which the range visits the headers.
createHTTPHandler(result, function, order) ==
  IF ~result.Success
    THEN InternalServerError(NoResponse, "Lambda function execution failed",
                             Errorf(result.Error))
    ELSE IF result.Output.type \in {"object", "map"}
      THEN LET responseMap == result.Output.fields
               status == descriptorStatus(responseMap)
               response == [NoResponse EXCEPT
                              !.header = setHeaders(@, descriptorHeaders(responseMap), order)]
           IN IF "body" \in DOMAIN responseMap
                THEN IF responseMap["body"].type = "string"
                       THEN LET bodyStr == responseMap["body"].str
                                contentType == HeaderGet(response.header, "Content-Type")
                            IN IF contentType = ""
                                 THEN Write([response EXCEPT !.header =
                                               HeaderSet(@, "Content-Type",
                                                         defaultContentType(function, bodyStr))],
                                            status, bodyStr)
                                 ELSE Write(response, status, bodyStr)
                       ELSE eJSON(response, status, responseMap["body"])
                ELSE Write(response, status, "")
      ELSE eJSON(NoResponse, 200, result.Output)

\* The orders a range over a map's keys can take.
RangeOrders(keys) ==
  {order \in [1..Cardinality(keys) -> keys] :
     \A i, j \in 1..Cardinality(keys) : i # j => order[i] # order[j]}

(***************************************************************************)
(* Requests: the results a handler gets and the records it re-reads        *)
(***************************************************************************)
StatusMembers ==
  {EmptyMap, [k \in {"status"} |-> JSNumber(201)], [k \in {"status"} |-> JSFloat(4045)],
   [k \in {"status"} |-> JSString("404")]}

HeadersMembers ==
  {EmptyMap,
   [k \in {"headers"} |-> GoMap([h \in {"Content-Type"} |-> JSString("text/xml")])],
   [k \in {"headers"} |-> GoMap([h \in {"X-A"} |-> JSNumber(1)])],
   [k \in {"headers"} |-> GoMap([h \in {"content-type", "X-A"} |->
                                   IF h = "X-A" THEN JSBool(TRUE) ELSE JSString("text/css")])],
   [k \in {"headers"} |-> GoMap([h \in {"Content-Type", "content-type"} |->
                                   IF h = "Content-Type" THEN JSString("text/xml")
                                                         ELSE JSString("text/css")])],
   [k \in {"headers"} |-> JSString("Content-Type: text/html")]}

\* The string bodies scripts return: each clause of the detector alone, and
\* bodies on which several clauses hold.
StringBodies ==
  {"hello", " <div>{}</div>\n", "{\"a\":1}", "body { color: #333; margin: 0; }",
   "{<div>}", "<a>{color:red}</a>", "a{color:red} var b", "[function]", "var x = 1",
   "<?xml version=\"1.0\"?><a/>", "\t<html></html> ", ""}

BodyMembers ==
  {EmptyMap} \cup {[k \in {"body"} |-> JSString(str)] : str \in StringBodies}
    \cup {[k \in {"body"} |-> GoMap([m \in {"a"} |-> JSString("<b>")])],
          [k \in {"body"} |-> Nil]}

PayloadMembers == {EmptyMap, [k \in {"pong"} |-> JSBool(TRUE)]}

\* The union of maps with disjoint keys.
Merge(a, b) == [k \in (DOMAIN a) \cup (DOMAIN b) |-> IF k \in DOMAIN a THEN a[k] ELSE b[k]]

\* The values a script ends with: objects with any of the members above,
\* an array, a string, a number.
Outputs ==
  {JSObject(Merge(Merge(st, hd), Merge(bd, pl))) :
     st \in StatusMembers, hd \in HeadersMembers, bd \in BodyMembers, pl \in PayloadMembers}
    \cup {JSArray("[1,2]"), JSString("pong"), JSNumber(7)}

Results ==
  {[Success |-> TRUE, Output |-> o, Error |-> ""] : o \in Outputs}
    \cup {[Success |-> FALSE, Output |-> Nil, Error |-> m] :
            m \in {"execution timeout", "Function is disabled", "Error: boom",
                   "Error: no %s in 100%"}}

\* The values of the record's contentType field.
ContentTypes == {"", "auto", "text/html", "text/xml"}

RereadRecords ==
  {NoRecord} \cup {[Rec(TRUE, SomeText) EXCEPT !.contentType = c] : c \in ContentTypes}

\* A request has been routed to the handler of a function, executeFunction has
\* returned this result, and the record reads so when the handler looks it up.
InitHTTP ==
  /\ records = [f \in FunctionIds |-> NoRecord]
  /\ httpRoutes = EmptyMap
  /\ dbTriggers = EmptyMap
  /\ cronJobs = EmptyMap
  /\ schedulerJobs = <<>>
  /\ schedulerStarted = TRUE
  /\ router = TRUE
  /\ routerRoutes = {}
  /\ routerRepeats = FALSE
  /\ bootstrapped = TRUE
  /\ last = [op |-> "serve", id |-> "", err |-> NilErr]
  /\ spawned = <<>>
  /\ w = [p \in Procs |-> Idle]
  /\ obs = NoObservation
  /\ NoExecutions
  /\ httpIn \in [result : Results, function : RereadRecords]
  /\ httpOut = NoHTTP
  /\ ctxIn = NoContext
  /\ ctxOut = NoBindings

\* The handler runs to its return.
Respond ==
  /\ httpOut = NoHTTP
  /\ \E order \in RangeOrders(DOMAIN descriptorHeaders(httpIn.result.Output.fields)) :
       httpOut' = createHTTPHandler(httpIn.result, httpIn.function, order)
  /\ UNCHANGED <<regVars, concVars, execVars, httpIn, ctxVars>>

NextHTTP == Respond

SpecHTTP == InitHTTP /\ [][NextHTTP]_vars

\* The result is a success whose value is an object with none of the members
\* status, headers, body.
BarePayload(result) ==
  /\ result.Success
  /\ result.Output.type = "object"
  /\ DOMAIN result.Output.fields # {}
  /\ DOMAIN result.Output.fields \cap {"status", "headers", "body"} = {}

\* C10: a returned object with none of the members status, headers, body is
\* answered with status 200 and the object as JSON in the body, with
\* Content-Type application/json.
BarePayloadIsJSONBody ==
  (httpOut # NoHTTP /\ BarePayload(httpIn.result)) =>
    /\ httpOut.written /\ httpOut.status = 200
    /\ httpOut.body = toJSON(httpIn.result.Output)
    /\ HeaderGet(httpOut.header, "Content-Type") = "application/json"

\* The handler has answered a successful result whose value is an object.
AnsweredObject ==
  /\ httpOut # NoHTTP
  /\ httpIn.result.Success
  /\ httpIn.result.Output.type = "object"

\* C11: the status member of a returned object, when it is a number, is the
\* response status; the status is 200 only when the member is absent, not a
\* number, or 200 itself.
NumericStatusIsResponseStatus ==
  AnsweredObject =>
    LET responseMap == httpIn.result.Output.fields
        numeric == /\ "status" \in DOMAIN responseMap
                   /\ responseMap["status"].type \in {"int64", "float64"}
    IN /\ (numeric /\ responseMap["status"].type = "int64") =>
             httpOut.status = responseMap["status"].num
       /\ (numeric /\ responseMap["status"].type = "float64"
                   /\ responseMap["status"].num % 10 = 0) =>
             httpOut.status = responseMap["status"].num \div 10
       /\ (~numeric) => httpOut.status = 200

\* The Content-Type values the headers member of the returned object carries
\* (header names compare without regard to case).
ScriptContentTypes(responseMap) ==
  LET headers == descriptorHeaders(responseMap)
  IN {Sprintv(headers[k]) : k \in (DOMAIN headers) \cap {"Content-Type", "content-type"}}

StringBody(responseMap) ==
  "body" \in DOMAIN responseMap /\ responseMap["body"].type = "string"

MIMETypes ==
  {"text/plain", "text/html", "application/json", "text/css", "application/javascript",
   "application/xml", "text/xml"}

\* The handler has written a string body of an object whose headers carry no
\* Content-Type.
AnsweredStringBodyWithoutType ==
  /\ AnsweredObject
  /\ StringBody(httpIn.result.Output.fields)
  /\ ScriptContentTypes(httpIn.result.Output.fields) = {}

\* C13: for a string body without a Content-Type header, the response's
\* Content-Type is the function's configured contentType when that is neither
\* empty nor "auto", the detector's result for the body when it is, and
\* text/plain when the record cannot be read again; it is always one of the
\* defined MIME strings.
DefaultContentTypeResolution ==
  AnsweredStringBodyWithoutType =>
    LET function == httpIn.function
        bodyStr == httpIn.result.Output.fields["body"].str
    IN /\ "Content-Type" \in DOMAIN httpOut.header
       /\ httpOut.header["Content-Type"] \in MIMETypes
       /\ ~function.exists => httpOut.header["Content-Type"] = "text/plain"
       /\ (function.exists /\ function.contentType \notin {"", "auto"}) =>
            httpOut.header["Content-Type"] = function.contentType
       /\ (function.exists /\ function.contentType \in {"", "auto"}) =>
            httpOut.header["Content-Type"] = detectContentType(bodyStr)
       /\ httpOut.body = bodyStr

\* A body that looks like CSS went out as text/xml, the configured type.
DefaultContentTypeWitness ==
  /\ AnsweredStringBodyWithoutType
  /\ httpIn.function.exists /\ httpIn.function.contentType = "text/xml"
  /\ httpIn.result.Output.fields["body"].str = "body { color: #333; margin: 0; }"
  /\ httpOut.header["Content-Type"] = "text/xml"

\* The type each body in use has by the first clause that holds of it, in the
\* order HTML, JSON, XML, CSS, JavaScript, plain text.
FirstClauseType(bodyStr) ==
  CASE bodyStr \in {" <div>{}</div>\n", "{<div>}", "\t<html></html> "} -> "text/html"
    [] bodyStr \in {"{\"a\":1}", "[function]"} -> "application/json"
    [] bodyStr \in {"<a>{color:red}</a>", "<?xml version=\"1.0\"?><a/>"} -> "application/xml"
    [] bodyStr \in {"body { color: #333; margin: 0; }", "a{color:red} var b"} -> "text/css"
    [] bodyStr \in {"var x = 1"} -> "application/javascript"
    [] bodyStr \in {"hello", ""} -> "text/plain"

\* C14: detectContentType returns the type of the first clause that holds of
\* the trimmed body, in the order HTML, JSON, XML, CSS, JavaScript, plain text:
\* text/html for a body in braces that contains <div, text/css for
\* 'body { color: #333; margin: 0; }', text/plain when no clause holds.
DetectorTakesFirstClause ==
  /\ \A bodyStr \in StringBodies : detectContentType(bodyStr) = FirstClauseType(bodyStr)
  /\ (AnsweredStringBodyWithoutType /\ httpIn.function.exists
        /\ httpIn.function.contentType \in {"", "auto"}) =>
       httpOut.header["Content-Type"] =
         FirstClauseType(httpIn.result.Output.fields["body"].str)

\* A body in braces that contains <div went out as text/html under "auto".
DetectorWitness ==
  /\ AnsweredStringBodyWithoutType
  /\ httpIn.function.exists /\ httpIn.function.contentType = "auto"
  /\ httpIn.result.Output.fields["body"].str = "{<div>}"
  /\ httpOut.header["Content-Type"] = "text/html"

\* C15: when the execution failed, the handler answers with a 500 error that
\* carries the execution's error message, and writes no status, header or body
\* of its own.
FailureAnswersWithErrorMessage ==
  (httpOut # NoHTTP /\ ~httpIn.result.Success) =>
    /\ httpOut.err.status = 500
    /\ httpOut.err.raw = httpIn.result.Error
    /\ ~httpOut.written /\ httpOut.header = EmptyMap /\ httpOut.body = ""

\* ---------------------------------------------------------------------------
\* The router and the HTTP route table

\* The functions whose handler the router holds for (method, path): the handler
\* of a route is createHTTPHandler(route.FunctionID), which runs that function
\* whatever the table holds at the time of the request.
ServedBy(method, path) ==
  {route.FunctionID : route \in {x \in routerRoutes : x.Method = method /\ x.Path = path}}

\* The routes of function f in the HTTP route table.
TableRoutesOf(f) ==
  {httpRoutes[k] : k \in {x \in DOMAIN httpRoutes : httpRoutes[x].FunctionID = f}}

\* C16: after a successful update of a function with the router available, the
\* router serves the function on the routes of its new triggers only: a path
\* of its old triggers is no longer served by it, a path of the new ones is.
UpdatedFunctionServedOnNewRoutesOnly ==
  (last.op = "update" /\ last.err = NilErr /\ router) =>
    /\ \A route \in TableRoutesOf(last.id) : last.id \in ServedBy(route.Method, route.Path)
    /\ \A route \in routerRoutes :
         route.FunctionID = last.id => route \in TableRoutesOf(last.id)

\* A request the router holds a route for: same method, the path as written in
\* the trigger, the handler of the same function.
Attached(route) ==
  \E x \in routerRoutes :
    x.Method = route.Method /\ x.Path = route.Path /\ x.FunctionID = route.FunctionID

LoadIsAttachedWitness ==
  /\ router /\ last.op = "bootstrap" /\ last.err = NilErr
  /\ httpRoutes # EmptyMap

\* C18: router reconciliation is idempotent: however often registerHTTPRoutes
\* runs, the router never receives a route it had already received.
RouterReceivesEachRouteOnce == ~routerRepeats

\* ---------------------------------------------------------------------------
\* The startup load

\* The enabled records, as FindRecordsByFilter("lambdas", "enabled = true") selects them.
EnabledFunctions == {f \in FunctionIds : records[f].exists /\ records[f].enabled}

\* No function id occurs twice in the sequence.
NoRepeats(ids) == \A i, j \in DOMAIN ids : i # j => ids[i] # ids[j]

\* C19: after the bootstrap load, running loadLambdaFunctions once more over
\* the same records in the same order leaves the HTTP route, DB trigger and
\* cron job tables as they are, and no DB event starts a function twice.
SecondLoadChangesNothing ==
  (last.op = "bootstrap" /\ last.err = NilErr) =>
    \A functions \in Orders(EnabledFunctions) :
      LET once == loadLambdaFunctions(EmptyRegistry, records, functions, "ok").r
          twice == loadLambdaFunctions(once, records, functions, "ok").r
      IN (once = Registry) =>
           /\ twice.httpRoutes = httpRoutes
           /\ twice.dbTriggers = dbTriggers
           /\ twice.cronJobs = cronJobs
           /\ \A collection \in Collections, event \in Events :
                NoRepeats(executeFunctionForDBEvent(twice.dbTriggers, collection, event))

\* C20: the cron scheduler is started only after the bootstrap load has
\* returned: it is never running while the load has yet to return.
SchedulerStartsAfterLoad == schedulerStarted => bootstrapped

\* ---------------------------------------------------------------------------
\* Database dispatch

\* The operations after which executeFunctionForDBEvent has run, with the key it looked up.
Dispatched ==
  /\ last.op \in {"dbevent", "create", "update", "delete"}
  /\ last.err = NilErr

DispatchKey == IF last.op = "dbevent" THEN last.id ELSE Sprintf2("lambdas", last.op)

\* C21: executeFunctionForDBEvent starts one detached execution per entry of
\* the list at (collection, event), in the list's order, and the record
\* operation returns no error of the dispatch: the only error a plain record
\* event returns is the host's own.
DispatchStartsOnePerEntry ==
  /\ Dispatched =>
       LET list == IF DispatchKey \in DOMAIN dbTriggers THEN dbTriggers[DispatchKey] ELSE <<>>
       IN /\ Len(spawned) = Len(list)
          /\ \A i \in DOMAIN list : spawned[i] = list[i].FunctionID
  /\ last.op = "dbevent" => last.err \in {NilErr, "host error"}
  /\ last.err # NilErr => spawned = <<>>

\* A create of a posts record started the two functions triggered by it.
DispatchWitness ==
  /\ last.op = "dbevent" /\ last.id = "posts:create" /\ last.err = NilErr
  /\ Len(spawned) = 2 /\ spawned[1] # spawned[2]

(***************************************************************************)
(* From a trigger to the globals of the runtime: each dispatcher builds a   *)
(* LambdaFunctionExecutionContext, executeFunction makes a runtime and      *)
(* setExecutionContext defines the context globals in it.                   *)
(***************************************************************************)
Min(a, b) == IF a <= b THEN a ELSE b

\* make([]byte, 0, 1024) in getRequestBody: the length and the capacity of the slice.
BufLen == 0
BufCap == 1024

\* n zero bytes, written \0.
RECURSIVE Zeros(_)
Zeros(n) == IF n <= 0 THEN "" ELSE "\\0" \o Zeros(n - 1)

\* r.Body.Read(p) for a slice p of length len on an unread body: at most len
\* bytes are copied; an empty body reports io.EOF.
Read(content, len) ==
  [n |-> Min(len, Len(content)),
   err |-> IF Len(content) = 0 THEN "EOF" ELSE NilErr]

\* getRequestBody(r): the count Read returns is dropped and the slice is
\* converted as it is, with the length it was made with.
getRequestBody(r) ==
  IF ~r.HasBody THEN ""
  ELSE LET rd == Read(r.Body, BufLen)
       IN IF rd.err # NilErr THEN ""
          ELSE SubSeq(r.Body, 1, rd.n) \o Zeros(BufLen - rd.n)

\* setExecutionContext(vm, ctx, function): ctx.Request is a pointer, ctx.Record
\* and ctx.OldRecord are interface{} fields, and each test is a comparison of
\* the field with nil.
setExecutionContext(ctx, function) ==
  [made |-> TRUE,
   bound |-> {"$env", "$trigger"}
               \cup (IF ~ctx.Request.nil THEN {"$request"} ELSE {})
               \cup (IF ctx.Record # NilInterface THEN {"$record"} ELSE {})
               \cup (IF ctx.Record # NilInterface /\ ctx.OldRecord # NilInterface
                       THEN {"$oldRecord"} ELSE {}),
   trigger |-> ctx.TriggerType,
   request |-> IF ~ctx.Request.nil
                 THEN [method |-> ctx.Request.Method, url |-> ctx.Request.URL,
                       body |-> getRequestBody(ctx.Request)]
                 ELSE NoJSRequest,
   record |-> ctx.Record,
   oldRecord |-> IF ctx.Record # NilInterface /\ ctx.OldRecord # NilInterface
                   THEN ctx.OldRecord ELSE NilInterface]

\* executeFunction(ctx) up to setExecutionContext: without a record, or with a
\* disabled one, it returns before a runtime is made.
Execute(ctx) ==
  /\ ctxIn' = ctx
  /\ ctxOut' = IF earlyReturn(records[ctx.FunctionID]).returns
                 THEN NoBindings
                 ELSE setExecutionContext(ctx, records[ctx.FunctionID])
  /\ UNCHANGED <<regVars, concVars, execVars, httpVars>>

\* The entity bodies of the requests.
RequestBodies == {"", "hello", "{\"a\":1}"}

\* The requests that arrive: with a body, or with r.Body nil.
Requests ==
  [nil : {FALSE}, Method : {"GET"}, URL : {"/a", "/b"}, HasBody : {TRUE}, Body : RequestBodies]
    \cup [nil : {FALSE}, Method : {"GET"}, URL : {"/a", "/b"}, HasBody : {FALSE}, Body : {""}]

\* The route keys of the HTTP triggers in the stored functions.
RouteKeys == {Sprintf2("GET", url) : url \in {"/a", "/b"}}

\* createHTTPHandler(functionID): the router calls the handler of the route
\* the request matches.
HTTPDispatch(key, request) ==
  /\ key \in DOMAIN httpRoutes
  /\ request.Method = httpRoutes[key].Method /\ request.URL = httpRoutes[key].Path
  /\ Execute([FunctionID |-> httpRoutes[key].FunctionID, TriggerType |-> "http",
              Request |-> request, Record |-> NilInterface, OldRecord |-> NilInterface])

\* executeFunctionForCron(functionID), called by the scheduler for a job it
\* holds while it is running.
CronDispatch(f) ==
  /\ schedulerStarted
  /\ \E i \in DOMAIN schedulerJobs : schedulerJobs[i].id = "lambda_function_" \o f
  /\ Execute([FunctionID |-> f, TriggerType |-> "cron", Request |-> NilRequest,
              Record |-> NilInterface, OldRecord |-> NilInterface])

\* e.Record.Original(): the record as it was stored before the update, never nil.
Original(record) == "original"

\* The *core.Record the hook of the event passes as oldRecord: the original of
\* the record for an update, the nil pointer for a create and a delete.
oldRecordOf(event) == IF event = "update" THEN Original("record") ELSE "nil"

\* The OnRecordCreate/Update/Delete hook and the i-th execution that
\* executeFunctionForDBEvent(record, oldRecord, event) starts: both pointers
\* are stored in the interface{} fields of the context.
DBDispatch(collection, event, i) ==
  LET key == Sprintf2(collection, event)
  IN /\ key \in DOMAIN dbTriggers
     /\ i \in DOMAIN dbTriggers[key]
     /\ Execute([FunctionID |-> dbTriggers[key][i].FunctionID, TriggerType |-> "database",
                 Request |-> NilRequest,
                 Record |-> Interface("*core.Record", "record"),
                 OldRecord |-> Interface("*core.Record", oldRecordOf(event))])

\* The stored functions: the records of the other specifications and one
\* triggered by the update of a posts record.
CtxRecords ==
  RecordValues \cup {NoRecord}
    \cup { Rec(TRUE, [json |-> TRUE, http |-> << [method |-> "GET", path |-> "/a"] >>,
                      database |-> << [collection |-> "posts", event |-> "update"] >>,
                      cron |-> <<>>]) }

\* The plugin after bootstrap and serve, with the stored functions registered.
InitCtx ==
  /\ records \in [FunctionIds -> CtxRecords]
  /\ \E functions \in Orders({f \in FunctionIds : records[f].exists /\ records[f].enabled}) :
       LET r == loadLambdaFunctions(EmptyRegistry, records, functions, "ok").r
       IN /\ httpRoutes = r.httpRoutes
          /\ dbTriggers = r.dbTriggers
          /\ cronJobs = r.cronJobs
          /\ schedulerJobs = r.schedulerJobs
          /\ routerRoutes = registerHTTPRoutes(r.httpRoutes, {}, TRUE)
  /\ schedulerStarted = TRUE
  /\ router = TRUE
  /\ routerRepeats = FALSE
  /\ bootstrapped = TRUE
  /\ last = [op |-> "serve", id |-> "", err |-> NilErr]
  /\ spawned = <<>>
  /\ w = [p \in Procs |-> Idle]
  /\ obs = NoObservation
  /\ NoExecutions
  /\ NoRequest

NextCtx ==
  \/ Terminate
  \/ \E key \in RouteKeys, request \in Requests : HTTPDispatch(key, request)
  \/ \E f \in FunctionIds : CronDispatch(f)
  \/ \E collection \in Collections, event \in Events, i \in 1..Cardinality(FunctionIds) :
       DBDispatch(collection, event, i)

SpecCtx == InitCtx /\ [][NextCtx]_vars

\* An execution for which a runtime was made and given the context.
Bound == ctxOut.made

\* C22: $request is defined only in HTTP-triggered executions, $record only in
\* database-triggered ones, and $oldRecord only for database update events:
\* it is left undefined for a create, a delete, HTTP and cron.
BindingsFollowTrigger ==
  Bound =>
    /\ ("$request" \in ctxOut.bound) <=> (ctxIn.TriggerType = "http")
    /\ ("$record" \in ctxOut.bound) <=> (ctxIn.TriggerType = "database")
    /\ ("$oldRecord" \in ctxOut.bound) <=>
         (ctxIn.TriggerType = "database" /\ ctxIn.OldRecord.ptr # "nil")

\* C23: in an HTTP-triggered execution $request.body is the entity body of the
\* request as a string: a body of at most 1024 bytes is bound as it is, and
\* the bound string is empty only for a request without body.
RequestBodyIsEntity ==
  (Bound /\ ctxIn.TriggerType = "http") =>
    /\ (ctxIn.Request.HasBody /\ Len(ctxIn.Request.Body) <= BufCap) =>
         ctxOut.request.body = ctxIn.Request.Body
    /\ ctxOut.request.body = "" => (~ctxIn.Request.HasBody \/ ctxIn.Request.Body = "")

\* ---------------------------------------------------------------------------
\* Failed registrations

\* The enabled stored functions whose triggers text parses.
Parsable == {f \in EnabledFunctions : records[f].triggers.json}

\* Every trigger of f's configuration has its entry: the route key of each
\* http trigger is in the table, held by a function that declares it (the last
\* registered of them), the list of each database trigger holds f, and f has
\* its cron job when it has cron triggers.
FullyRegistered(f) ==
  LET C == records[f].triggers
  IN /\ \A i \in DOMAIN C.http :
          LET key == Sprintf2(ToUpper(C.http[i].method), C.http[i].path)
          IN /\ key \in DOMAIN httpRoutes
             /\ httpRoutes[key].FunctionID \in Parsable
             /\ \E j \in DOMAIN records[httpRoutes[key].FunctionID].triggers.http :
                  LET t == records[httpRoutes[key].FunctionID].triggers.http[j]
                  IN Sprintf2(ToUpper(t.method), t.path) = key
     /\ \A i \in DOMAIN C.database :
          LET key == Sprintf2(C.database[i].collection, C.database[i].event)
          IN /\ key \in DOMAIN dbTriggers
             /\ \E j \in DOMAIN dbTriggers[key] : dbTriggers[key][j].FunctionID = f
     /\ C.cron # <<>> => (f \in DOMAIN cronJobs /\ cronJobs[f].FunctionID = f)

\* The bootstrap load has run and its query for the stored functions succeeded.
Loaded == last.op = "bootstrap" /\ ~HasPrefix(last.err, "failed to load lambda functions")

LifecycleHandlersSwallowFailures ==
  last.op \in {"create", "update"} => last.err \in {NilErr, "host error"}

\* C26: the bootstrap hook completes without error whatever the persistence
\* answers during the load: a failed query for the stored functions and a
\* missing lambdas collection are logged only.
BootstrapSurvivesPersistenceFailure ==
  last.op = "bootstrap" => last.err = NilErr

\* ---------------------------------------------------------------------------
\* Keys of the tables

\* The upper-case method names.
UpperMethods == {"GET", "POST"}

\* Two method names that differ at most in letter case.
SameMethod(a, b) ==
  \E m \in {{"get", "GET"}, {"post", "POST"}} : a \in m /\ b \in m

\* C27: the HTTP route table holds one entry per upper-case method and path,
\* under the key METHOD:path, and after a registration the entry of each of its
\* method-and-path pairs is that registration's, whoever held the key before
\* and in whatever letter case the method was written.
RouteTableLastWriterWins ==
  /\ \A k \in DOMAIN httpRoutes :
       /\ httpRoutes[k].Method \in UpperMethods
       /\ k = httpRoutes[k].Method \o ":" \o httpRoutes[k].Path
  /\ (Registered /\ records[last.id].enabled /\ records[last.id].triggers.json) =>
       \A i \in DOMAIN records[last.id].triggers.http :
         LET t == records[last.id].triggers.http[i]
         IN \E k \in DOMAIN httpRoutes :
              /\ SameMethod(httpRoutes[k].Method, t.method) /\ httpRoutes[k].Path = t.path
              /\ httpRoutes[k].FunctionID = last.id

\* A function was registered with "get" /a while another enabled function
\* declares "GET" /a: the table holds GET:/a once, for the function registered last.
LastWriterWitness ==
  /\ Registered /\ records[last.id].enabled /\ records[last.id].triggers.json
  /\ \E i \in DOMAIN records[last.id].triggers.http :
       records[last.id].triggers.http[i] = [method |-> "get", path |-> "/a"]
  /\ \E g \in FunctionIds \ {last.id} :
       /\ records[g].exists /\ records[g].enabled /\ records[g].triggers.json
       /\ \E i \in DOMAIN records[g].triggers.http :
            records[g].triggers.http[i] = [method |-> "GET", path |-> "/a"]
  /\ httpRoutes["GET:/a"].FunctionID = last.id
  /\ "get:/a" \notin DOMAIN httpRoutes

\* The schedules of the scheduler's jobs with the given id, in the order they were added.
SchedulesOf(jobID) ==
  LET jobs == SelectSeq(schedulerJobs, LAMBDA j : j.id = jobID)
  IN [i \in DOMAIN jobs |-> jobs[i].schedule]

\* C28: after a registration of f with one or more cron entries, the cron job
\* table holds one entry for f, with job id lambda_function_<f> and the
\* schedule of the last cron entry, and the scheduler holds one job per cron
\* expression of the configuration.
CronTableKeepsLastSchedule ==
  /\ \A k \in DOMAIN cronJobs : cronJobs[k].FunctionID = k
  /\ (Registered /\ records[last.id].enabled /\ records[last.id].triggers.json
        /\ records[last.id].triggers.cron # <<>>) =>
       LET f == last.id
           cron == records[f].triggers.cron
       IN /\ f \in DOMAIN cronJobs
          /\ cronJobs[f] = [FunctionID |-> f, Schedule |-> cron[Len(cron)].schedule,
                            JobID |-> "lambda_function_" \o f]
          /\ SchedulesOf("lambda_function_" \o f) = [i \in DOMAIN cron |-> cron[i].schedule]

\* A function was registered with two cron expressions.
CronTableWitness ==
  /\ Registered /\ records[last.id].enabled /\ records[last.id].triggers.json
  /\ Len(records[last.id].triggers.cron) = 2
  /\ cronJobs[last.id].Schedule = "0 * * * *"
  /\ Len(SchedulesOf(cronJobs[last.id].JobID)) = 2

\* ---------------------------------------------------------------------------
\* Shutdown

\* C29: once the terminate event has been handled the scheduler is stopped and
\* no cron-triggered execution can start, and handling the event changes none
\* of the three registry tables.
TerminateStopsCron ==
  /\ [](last.op = "terminate" =>
          /\ ~schedulerStarted
          /\ \A f \in FunctionIds : ~ENABLED CronDispatch(f))
  /\ [][(last'.op = "terminate" /\ last.op # "terminate") => UNCHANGED regTables]_vars

\* The terminate event was handled while the scheduler held a job of a stored function.
TerminateWitness ==
  /\ last.op = "terminate"
  /\ \E f \in FunctionIds :
       /\ f \in DOMAIN cronJobs
       /\ \E i \in DOMAIN schedulerJobs : schedulerJobs[i].id = cronJobs[f].JobID

(***************************************************************************)
(* Two hook chains at once: the host runs the create of two lambdas records *)
(* on two goroutines, and each call made by registerFunction is a step.     *)
(***************************************************************************)
\* The OnRecordCreate("lambdas") hook after e.Next(): the record is stored and
\* handleFunctionCreated(record) begins.
StartCreate(p, f, record) ==
  /\ w[p].pc = "idle" /\ ~records[f].exists
  /\ records' = [records EXCEPT ![f] = record]
  /\ w' = [w EXCEPT ![p] = [Idle EXCEPT !.pc = "reg", !.op = "create", !.f = f]]
  /\ UNCHANGED <<httpRoutes, dbTriggers, cronJobs, schedulerJobs, routerRoutes, routerRepeats,
                 last, spawned, obs>>
  /\ ConcFrame

\* The records created: enabled, each with a database trigger on the create of
\* a posts record.
RaceRecords ==
  { Rec(TRUE, t) : t \in {tt \in TriggerTexts : tt.json /\ tt.database # <<>>} }

\* The function each goroutine creates.
CreatedBy(p) == IF p = "w1" THEN "f1" ELSE "f2"

\* The plugin after bootstrap and serve, with no function stored.
InitRace ==
  /\ records = [f \in FunctionIds |-> NoRecord]
  /\ httpRoutes = EmptyMap
  /\ dbTriggers = EmptyMap
  /\ cronJobs = EmptyMap
  /\ schedulerJobs = <<>>
  /\ routerRoutes = {}
  /\ routerRepeats = FALSE
  /\ schedulerStarted = TRUE
  /\ router = TRUE
  /\ bootstrapped = TRUE
  /\ last = [op |-> "serve", id |-> "", err |-> NilErr]
  /\ spawned = <<>>
  /\ w = [p \in Procs |-> Idle]
  /\ obs = NoObservation
  /\ NoExecutions
  /\ NoRequest

NextRace ==
  \E p \in Procs :
    \/ \E record \in RaceRecords : StartCreate(p, CreatedBy(p), record)
    \/ RegisterStart(p)
    \/ RegisterHTTPStep(p)
    \/ RegisterDBLoad(p)
    \/ RegisterDBStore(p)
    \/ RegisterCronAdd(p)
    \/ RegisterCronStore(p)
    \/ RoutesStep(p)
    \/ DispatchStep(p)

SpecRace == InitRace /\ [][NextRace]_vars

\* The list under collection:event holds an entry of function f.
InList(f, collection, event) ==
  /\ Sprintf2(collection, event) \in DOMAIN dbTriggers
  /\ \E i \in DOMAIN dbTriggers[Sprintf2(collection, event)] :
       dbTriggers[Sprintf2(collection, event)][i].FunctionID = f

\* C30: when the registrations of two functions that subscribe to the same
\* (collection, event) run at the same time, the list under that key holds an
\* entry for each of them once both have returned.
NoRegistrationLost ==
  ((\A p \in Procs : w[p].pc = "idle") /\ (\A f \in FunctionIds : records[f].exists)) =>
    \A f \in FunctionIds : InList(f, "posts", "create")

(***************************************************************************)
(* Response descriptors whose body is not a string, or is absent           *)
(***************************************************************************)
\* The status member of the descriptor read as a number: its value when it is
\* a whole number, 200 when the descriptor has none.
StatedStatus(responseMap) ==
  IF "status" \in DOMAIN responseMap /\ responseMap["status"].type = "int64"
    THEN responseMap["status"].num
    ELSE 200

\* The descriptor states its status as a whole number or not at all.
StatusIsStated(responseMap) ==
  "status" \in DOMAIN responseMap => responseMap["status"].type = "int64"

\* The body of the answer is the JSON text of a body member that is not a
\* string, whatever contentType the record configures, and nothing when the
\* descriptor has no body member; the only Content-Type that is not the
\* script's own is application/json on a JSON body.
BodyIsJSONOrAbsent ==
  AnsweredObject =>
    LET responseMap == httpIn.result.Output.fields
        contentType == HeaderGet(httpOut.header, "Content-Type")
    IN /\ ("body" \in DOMAIN responseMap /\ responseMap["body"].type # "string") =>
            /\ httpOut.written /\ httpOut.err = NoApiError
            /\ httpOut.body = toJSON(responseMap["body"])
            /\ IF ScriptContentTypes(responseMap) = {}
                 THEN contentType = "application/json"
                 ELSE contentType \in ScriptContentTypes(responseMap)
       /\ ("body" \notin DOMAIN responseMap) =>
            /\ httpOut.written /\ httpOut.err = NoApiError
            /\ httpOut.body = ""
            /\ IF ScriptContentTypes(responseMap) = {}
                 THEN "Content-Type" \notin DOMAIN httpOut.header
                 ELSE contentType \in ScriptContentTypes(responseMap)
            /\ \A key \in DOMAIN httpOut.header :
                 \E k \in DOMAIN descriptorHeaders(responseMap) :
                   /\ CanonicalHeaderKey(k) = key
                   /\ httpOut.header[key] = Sprintv(descriptorHeaders(responseMap)[k])

\* C31: a descriptor whose body is present and not a string is answered with
\* the body as JSON and the descriptor's status, for every configured
\* contentType; a descriptor without body is answered with the status and the
\* descriptor's headers only, with no body and no inferred Content-Type.
NonStringBodySentWithDescriptorStatus ==
  /\ BodyIsJSONOrAbsent
  /\ AnsweredObject =>
       LET responseMap == httpIn.result.Output.fields
       IN (/\ StatusIsStated(responseMap)
           /\ \/ "body" \notin DOMAIN responseMap
              \/ responseMap["body"].type # "string") =>
            httpOut.status = StatedStatus(responseMap)

\* ---------------------------------------------------------------------------
\* The router arrives before or after the load

\* C32: whichever of the serve event and the bootstrap load is handled first,
\* once both are done every entry of the HTTP route table is attached to the
\* router; as long as the router is not available no reconciliation has handed
\* it anything, whatever the table holds.
LateRouterBindingAnyOrder ==
  /\ (router /\ bootstrapped) => \A k \in DOMAIN httpRoutes : Attached(httpRoutes[k])
  /\ ~router => (routerRoutes = {} /\ ~routerRepeats)

\* The serve event is handled after the load filled the table: the routes the
\* load registered without a router are attached now.
ServeAfterLoadWitness ==
  /\ last.op = "serve" /\ bootstrapped /\ router
  /\ httpRoutes # EmptyMap
  /\ \A k \in DOMAIN httpRoutes : Attached(httpRoutes[k])

\* ---------------------------------------------------------------------------
\* Unregistering and the scheduler

\* handleFunctionDeleted is running in goroutine p and has not yet passed its
\* p.cronJobs.LoadAndDelete.
Unregistering(p) == w[p].pc \in {"delHTTP", "delDB", "delDBWrite", "delCron"}

\* C33: when the unregister half of an update of f has returned, the scheduler
\* holds no job with f's job id and the cron job table no entry of f, however
\* many cron expressions f had, so no tick runs f from a removed schedule; the
\* jobs of other functions stay; and an unregister of a function without cron
\* entry never changes the scheduler.
UnregisterRemovesSchedulerJobs ==
  /\ [](\A p \in Procs :
          (w[p].pc = "reg" /\ w[p].op = "update") =>
            /\ SchedulesOf("lambda_function_" \o w[p].f) = <<>>
            /\ w[p].f \notin DOMAIN cronJobs
            /\ \A g \in DOMAIN cronJobs : SchedulesOf(cronJobs[g].JobID) # <<>>)
  /\ [][\A p \in Procs :
          (Unregistering(p) /\ w[p].f \notin DOMAIN cronJobs) =>
            (schedulerJobs' = schedulerJobs /\ w'[p].pc # "delSched")]_vars

\* The unregister half of an update has returned for a function that had two
\* cron expressions: none of its jobs is left, the other function's job is.
UnregisterWitness ==
  /\ w["w1"].pc = "reg" /\ w["w1"].op = "update"
  /\ w["w1"].old.enabled /\ Len(w["w1"].old.triggers.cron) = 2
  /\ SchedulesOf("lambda_function_f1") = <<>>
  /\ SchedulesOf("lambda_function_f2") # <<>>

\* After a delete handled by the hook chain the scheduler holds no job of the
\* deleted function.
DeletedFunctionHasNoJob ==
  (last.op = "delete" /\ last.err = NilErr) =>
    /\ SchedulesOf("lambda_function_" \o last.id) = <<>>
    /\ last.id \notin DOMAIN cronJobs

\* ---------------------------------------------------------------------------
\* The tables and the stored records

\* The function record exists and is enabled.
Live(f) == f \in FunctionIds /\ records[f].exists /\ records[f].enabled

\* C34: after any sequence of completed creates, updates and deletes around the
\* one startup load, every entry of the HTTP route table, of the DB trigger
\* lists and of the cron job table names a function whose record exists and is
\* enabled, and no DB trigger key holds an empty list.
EntriesReferenceLiveFunctions ==
  /\ \A k \in DOMAIN httpRoutes : Live(httpRoutes[k].FunctionID)
  /\ \A k \in DOMAIN dbTriggers :
       /\ dbTriggers[k] # <<>>
       /\ \A i \in DOMAIN dbTriggers[k] : Live(dbTriggers[k][i].FunctionID)
  /\ \A k \in DOMAIN cronJobs : Live(k) /\ Live(cronJobs[k].FunctionID)

\* A delete was handled: the deleted function has no record and no entry, and
\* the list it may have shared with the other function still holds that one.
EntriesAfterDeleteWitness ==
  /\ last.op = "delete" /\ last.err = NilErr
  /\ ~records[last.id].exists /\ NoEntryFor(last.id)
  /\ "posts:create" \in DOMAIN dbTriggers
  /\ "lambdas:delete" \in DOMAIN dbTriggers
  /\ cronJobs # EmptyMap

\* ---------------------------------------------------------------------------
\* A route key two functions declare

\* C35: once the load has run, whatever creates, updates and deletes of other
\* functions follow, every HTTP trigger of a stored enabled function whose
\* triggers text parses has its key upper(method):path in the HTTP route table,
\* held by some function that declares it; so when f and g both declare a
\* route and g is deleted or updated away from it, the route still (or again)
\* dispatches f.
HTTPTriggersStayRouted ==
  (bootstrapped /\ ~(last.op = "bootstrap" /\ last.err # NilErr)) =>
    \A f \in Parsable :
      \A i \in DOMAIN records[f].triggers.http :
        LET t == records[f].triggers.http[i]
            key == Sprintf2(ToUpper(t.method), t.path)
        IN /\ key \in DOMAIN httpRoutes
           /\ httpRoutes[key].FunctionID \in Parsable
           /\ \E j \in DOMAIN records[httpRoutes[key].FunctionID].triggers.http :
                LET u == records[httpRoutes[key].FunctionID].triggers.http[j]
                IN Sprintf2(ToUpper(u.method), u.path) = key

(***************************************************************************)
(* Trigger entries without their members: the create chain for a record    *)
(* whose triggers text is JSON but leaves a member of an entry out.         *)
(***************************************************************************)
\* trigger[member].(string): the one-value assertion succeeds when the entry
\* has the member (a string here) and panics when it has not.
assertString(trigger, member) == member \in DOMAIN trigger

\* The first entry of the array at which an assertion of registerFunction
\* panics, 0 when none does.
firstPanic(triggers, names) ==
  LET bad == {i \in DOMAIN triggers : \E member \in names : ~assertString(triggers[i], member)}
  IN IF bad = {} THEN 0 ELSE CHOOSE i \in bad : \A j \in bad : i <= j

\* registerFunction panics for this record: it is enabled, its text is JSON,
\* and some entry lacks a member.
registerFunctionPanics(function) ==
  /\ function.enabled
  /\ jsonUnmarshal(function.triggers).err = NilErr
  /\ \/ firstPanic(function.triggers.http, {"method", "path"}) # 0
     \/ firstPanic(function.triggers.database, {"collection", "event"}) # 0
     \/ firstPanic(function.triggers.cron, {"schedule"}) # 0

\* The entries registerFunction has handed to registerHTTPTrigger,
\* registerDatabaseTrigger and registerCronTrigger when it panics: those before
\* the entry of the failed assertion, the three arrays taken in turn.
registeredBeforePanic(triggerConfig) ==
  LET h == firstPanic(triggerConfig.http, {"method", "path"})
      d == firstPanic(triggerConfig.database, {"collection", "event"})
      c == firstPanic(triggerConfig.cron, {"schedule"})
  IN IF h # 0
       THEN [triggerConfig EXCEPT !.http = SubSeq(@, 1, h - 1), !.database = <<>>, !.cron = <<>>]
       ELSE IF d # 0
         THEN [triggerConfig EXCEPT !.database = SubSeq(@, 1, d - 1), !.cron = <<>>]
         ELSE [triggerConfig EXCEPT !.cron = SubSeq(@, 1, c - 1)]

\* OnRecordCreate("lambdas") after e.Next() for any record: when
\* registerFunction panics the chain unwinds with what it had stored so far,
\* past registerHTTPRoutes and the DB dispatch.
CreateAny(f, record) ==
  /\ ~records[f].exists
  /\ records' = [records EXCEPT ![f] = record]
  /\ IF registerFunctionPanics(record)
       THEN /\ SetRegistry(registerFunction(Registry, f,
                             [record EXCEPT !.triggers = registeredBeforePanic(@)]).r)
            /\ last' = [op |-> "create", id |-> f,
                        err |-> "panic: interface conversion: interface {} is nil, not string"]
            /\ spawned' = <<>>
            /\ UNCHANGED <<routerRoutes, routerRepeats, schedulerStarted, router, bootstrapped,
                           concVars, execVars, httpVars, ctxVars>>
       ELSE AfterHandler("create", f, handleFunctionCreated(Registry, f, record), TRUE)

\* Texts with an entry that lacks a member, after entries that are complete.
PartialTexts ==
  { [json |-> TRUE, http |-> << [method |-> "GET", path |-> "/a"], [path |-> "/c"] >>,
       database |-> << [collection |-> "posts", event |-> "create"] >>, cron |-> <<>>],
    [json |-> TRUE, http |-> << [method |-> "GET"] >>, database |-> <<>>,
       cron |-> << [schedule |-> "* * * * *"] >>],
    [json |-> TRUE, http |-> << [method |-> "POST", path |-> "/b"] >>,
       database |-> << [collection |-> "posts", event |-> "create"], [collection |-> "posts"] >>,
       cron |-> << [schedule |-> "* * * * *"] >>],
    [json |-> TRUE, http |-> <<>>,
       database |-> << [collection |-> "posts", event |-> "update"] >>,
       cron |-> << [schedule |-> "* * * * *"], [expr |-> "0 * * * *"] >>] }

AnyRecords == RecordValues \cup { Rec(TRUE, t) : t \in PartialTexts }

\* The plugin after bootstrap and serve with no stored function.
InitReg ==
  /\ records = [f \in FunctionIds |-> NoRecord]
  /\ httpRoutes = EmptyMap
  /\ dbTriggers = EmptyMap
  /\ cronJobs = EmptyMap
  /\ schedulerJobs = <<>>
  /\ schedulerStarted = TRUE
  /\ router = TRUE
  /\ routerRoutes = {}
  /\ routerRepeats = FALSE
  /\ bootstrapped = TRUE
  /\ last = [op |-> "serve", id |-> "", err |-> NilErr]
  /\ spawned = <<>>
  /\ w = [p \in Procs |-> Idle]
  /\ obs = NoObservation
  /\ NoExecutions
  /\ NoRequest

NextReg ==
  \/ \E f \in FunctionIds, record \in AnyRecords : CreateAny(f, record)
  \/ \E f \in FunctionIds : DeleteRecord(f, TRUE)

SpecReg == InitReg /\ [][NextReg]_vars

\* registerFunction did not complete normally in the chain that ran last.
RegisterFailed == last.op = "create" /\ last.err # NilErr

\* C36: when registerFunction does not complete normally (the text is not
\* JSON, or an entry lacks a string member), no HTTP, DB or cron entry of that
\* function is in any table, and the failure is an error value returned to the
\* caller, not a panic that unwinds it.
RegisterIsAllOrNothing ==
  RegisterFailed =>
    /\ NoEntryFor(last.id)
    /\ \A i \in DOMAIN schedulerJobs : schedulerJobs[i].id # "lambda_function_" \o last.id
    /\ ~HasPrefix(last.err, "panic: ")

\* ---------------------------------------------------------------------------
\* An update with a text that does not parse

\* The entries of function g in registry r: its routes by key, its triggers in
\* every list, its cron job and its scheduler jobs.
EntriesOf(r, g) ==
  [http |-> {<<k, r.httpRoutes[k]>> : k \in {x \in DOMAIN r.httpRoutes : r.httpRoutes[x].FunctionID = g}},
   db   |-> {<<k, SelectSeq(r.dbTriggers[k], LAMBDA t : t.FunctionID = g)>> :
               k \in {x \in DOMAIN r.dbTriggers :
                        \E i \in DOMAIN r.dbTriggers[x] : r.dbTriggers[x][i].FunctionID = g}},
   cron |-> IF g \in DOMAIN r.cronJobs THEN {r.cronJobs[g]} ELSE {},
   jobs |-> SelectSeq(r.schedulerJobs, LAMBDA j : j.id = "lambda_function_" \o g)]

\* The registry after the step.
RegistryAfter == [httpRoutes |-> httpRoutes', dbTriggers |-> dbTriggers',
                  cronJobs |-> cronJobs', schedulerJobs |-> schedulerJobs']

StartDelete(p, f) ==
  /\ w[p].pc = "idle" /\ records[f].exists /\ ~Busy(f)
  /\ records' = [records EXCEPT ![f] = NoRecord]
  /\ w' = [w EXCEPT ![p] = [Idle EXCEPT !.pc = "delHTTP", !.op = "delete", !.f = f,
                                        !.old = records[f], !.keys = DOMAIN httpRoutes]]
  /\ UNCHANGED <<httpRoutes, dbTriggers, cronJobs, schedulerJobs, routerRoutes, routerRepeats,
                 last, spawned, obs>>
  /\ ConcFrame

\* The plugin after bootstrap and serve with f1 stored and registered.
InitUnreg ==
  /\ records \in [FunctionIds -> RaceRecords \cup {NoRecord}]
  /\ records["f1"] \in RaceRecords /\ records["f2"] = NoRecord
  /\ LET r == loadLambdaFunctions(EmptyRegistry, records, <<"f1">>, "ok").r
     IN /\ httpRoutes = r.httpRoutes
        /\ dbTriggers = r.dbTriggers
        /\ cronJobs = r.cronJobs
        /\ schedulerJobs = r.schedulerJobs
        /\ routerRoutes = registerHTTPRoutes(r.httpRoutes, {}, TRUE)
  /\ routerRepeats = FALSE
  /\ schedulerStarted = TRUE
  /\ router = TRUE
  /\ bootstrapped = TRUE
  /\ last = [op |-> "serve", id |-> "", err |-> NilErr]
  /\ spawned = <<>>
  /\ w = [p \in Procs |-> Idle]
  /\ obs = NoObservation
  /\ NoExecutions
  /\ NoRequest

NextUnreg ==
  \/ StartDelete("w1", "f1")
  \/ DeleteHTTPStep("w1")
  \/ DeleteDBStep("w1")
  \/ DeleteDBWrite("w1")
  \/ DeleteCronStep("w1")
  \/ DeleteSchedStep("w1")
  \/ DispatchStep("w1")
  \/ \E record \in RaceRecords : StartCreate("w2", "f2", record)
  \/ RegisterStart("w2")
  \/ RegisterHTTPStep("w2")
  \/ RegisterDBLoad("w2")
  \/ RegisterDBStore("w2")
  \/ RegisterCronAdd("w2")
  \/ RegisterCronStore("w2")
  \/ RoutesStep("w2")
  \/ DispatchStep("w2")

SpecUnreg == InitUnreg /\ [][NextUnreg]_vars

\* C38: an unregister of f running at the same time as the register of another
\* function g drops no entry of g: once both have returned, every http trigger
\* of g has its key in the route table with g's entry, every list of a database
\* trigger of g holds g, and g has its cron job if it has cron triggers.
UnregisterKeepsOtherRegistration ==
  (/\ \A p \in Procs : w[p].pc = "idle"
   /\ ~records["f1"].exists /\ records["f2"].exists) =>
    LET C == records["f2"].triggers
    IN /\ \A i \in DOMAIN C.http :
            LET key == Sprintf2(ToUpper(C.http[i].method), C.http[i].path)
            IN key \in DOMAIN httpRoutes /\ httpRoutes[key].FunctionID = "f2"
       /\ \A i \in DOMAIN C.database : InList("f2", C.database[i].collection, C.database[i].event)
       /\ C.cron # <<>> => "f2" \in DOMAIN cronJobs

\* ---------------------------------------------------------------------------
\* Scripts that do not end

\* C39: every call of executeFunction returns to its caller, also when the
\* script never ends: at the deadline the call returns with the timeout while
\* the evaluation goes on in its goroutine, never interrupted, and a later
\* call is neither blocked by it nor kept from returning.
EveryCallReturns ==
  /\ \A e \in ExecIds : (execs[e].state # "free") ~> (execs[e].state = "returned")
  /\ [](\A e \in ExecIds :
          (execs[e].state = "returned" /\ execs[e].code = Loop) =>
            /\ execs[e].timedOut /\ execs[e].result = TimeoutResult
            /\ ~execs[e].evalDone /\ execs[e].vm # 0)
  /\ [](\A f \in FunctionIds : FreeExecs # {} => ENABLED ExecStart(f))

\* A call whose script loops has returned with the timeout, its evaluation
\* still running, and a call started after it has returned too.
RunawayScriptWitness ==
  \E e1, e2 \in ExecIds :
    /\ e1 < e2
    /\ execs[e1].state = "returned" /\ execs[e1].code = Loop
    /\ execs[e1].timedOut /\ ~execs[e1].evalDone
    /\ execs[e2].state = "returned" /\ execs[e2].StartTime >= execs[e1].StartTime

\* ---------------------------------------------------------------------------
\* A record operation the host fails

\* The chain that ran last was one of a record create, update or delete.
RecordChain(l) == l.op \in {"create", "update", "delete", "dbevent"}

\* C40: when e.Next() returns an error in the chain of a create, update or
\* delete, the three tables, the scheduler's jobs and the stored records are as
\* before and the router receives nothing; and whenever such a chain returns
\* an error, the host's or a handler's, no execution is started for the event.
FailedOperationChangesNothing ==
  /\ [][(RecordChain(last') /\ last'.err = "host error") =>
          /\ UNCHANGED <<regTables, schedulerJobs, records>>
          /\ UNCHANGED <<routerRoutes, routerRepeats>>]_vars
  /\ []((RecordChain(last) /\ last.err # NilErr) => spawned = <<>>)

\* The delete of a function with entries failed in the host while a function
\* subscribes to the delete of lambdas records: the entries are there, nothing
\* was started.
FailedDeleteWitness ==
  /\ last.op = "delete" /\ last.err = "host error"
  /\ records[last.id].exists /\ ~NoEntryFor(last.id)
  /\ "lambdas:delete" \in DOMAIN dbTriggers
  /\ router /\ spawned = <<>>

====
